---- MODULE Spec2Model ----
(***************************************************************************)
(* Model of the dispatch core of the AI request router:                    *)
(*   - jobs/queue_backend.py   InMemoryQueue (heapq priority queue)        *)
(*   - jobs/circuit_breaker.py CircuitBreaker                              *)
(*   - jobs/quota.py           TenantQuota                                 *)
(*   - core/limiter.py         RateLimitStore                              *)
(*   - jobs/storage.py         JobStorage (idempotency map)                *)
(*   - jobs/retry.py           is_retryable_error, execute_with_retry      *)
(*   - providers/provider_manager.py ProviderManager.inference and the     *)
(*                             DeepSeek and Grok adapters                  *)
(*   - jobs/storage.py         JobStorage (job, result, dead-letter stores)*)
(*   - jobs/queue_backend.py   RedisQueue, alone and beside InMemoryQueue  *)
(*   - jobs/models.py          Job.to_dict / Job.from_dict                 *)
(*   - jobs/batcher.py         Batcher                                     *)
(* Every component owns its variables; each has its own specification in   *)
(* which the other components stay in their initial state.                 *)
(***************************************************************************)
EXTENDS Integers, Sequences, FiniteSets, TLC

VARIABLES
    heap,        \* InMemoryQueue._queue: the heapq list of <<priority_int, counter, job>>
    counter,     \* InMemoryQueue._counter
    q_op,        \* name of the last queue operation
    q_ret,       \* the job entry returned by dequeue: <<entry>>, or <<>> for None
    q_ok,        \* the boolean returned by enqueue / remove
    breaker,     \* CircuitBreaker: state record + half_open_calls
    now,         \* the wall clock read by datetime.utcnow()
    b_op,        \* name of the last breaker operation
    b_avail,     \* return value of the last is_available
    h_consec,    \* history: failures recorded since the last recorded success
    h_openInstant, \* history: time of the last transition into open
    h_hoSucc,    \* history: successes recorded while half-open since it was entered
    h_hoProbes,  \* history: is_available grants in half-open not yet reported
    clock,       \* the wall clock of the admission gate, in seconds
    tq,          \* TenantQuota: daily_usage, last_reset, request_timestamps
    tq_ret,      \* result of the last check_and_consume
    tq_admitted, \* history: timestamps of all requests check_and_consume admitted
    rate_limits, \* RateLimitStore.rate_limits: tenant -> list of <<timestamp, count>>
    daily_quotas,\* RateLimitStore.daily_quotas: tenant -> [date, count]
    rl_ret,      \* last RateLimitStore call: [op, tenant, allowed, remaining]
    rl_admitted, \* history: per tenant, timestamps check_rate_limit admitted
    backend,     \* JobStorage.backend: "memory" or "redis"
    st_jobs,     \* JobStorage._jobs / redis job:<id> keys: job_id -> idempotency_key
    st_idem,     \* JobStorage._idempotency / redis idem:<key> keys: key -> job_id
    admission,         \* the admissions in progress: process -> [pc, key, job_id]
    next_uuid,   \* the next identifier uuid4() hands out
    h_bound,     \* history: key -> every job_id ever bound to it
    max_attempts,\* RetryConfig.max_attempts
    r_pc,        \* execute_with_retry: "call", "sleep", "returned", "raised"
    r_attempt,   \* the loop variable attempt
    r_log,       \* history: the invocations and sleeps made, in order
    r_raised,    \* the error execute_with_retry raised, <<>> if none
    r_last,      \* the last error classified: <<error, is_retryable_error(error)>>
    pm_providers,\* ProviderManager.providers: the adapters in configured order
    pm_endpoint, \* what each provider's remote endpoint answers during this request
    pm_pc,       \* ProviderManager.inference: "idle", "loop", "returned", "raised"
    pm_i,        \* the loop index i (1-based)
    pm_log,      \* history: the provider.inference calls of this request, in order
    pm_result,   \* <<response>> returned, <<message>> raised, <<>> before
    pm_stats,    \* ProviderManager.stats
    js_backend,  \* JobStorage.backend of the job/result/dead-letter stores
    js_jobs,     \* JobStorage._jobs / job:<id>: job_id -> <<job>> or <<>>
    js_results,  \* JobStorage._results / result:<id>: job_id -> <<result>> or <<>>
    js_dlq,      \* JobStorage._dlq / dlq:<id>: job_id -> <<job>> or <<>>
    js_last,     \* the last JobStorage call: its name, job, status change, return
    rq_zset,     \* RedisQueue: the sorted set at _queue_key
    rq_counter,  \* RedisQueue: the integer at _counter_key
    rq_procs,    \* the enqueue calls in progress: process -> [pc, job, counter]
    rq_last,     \* the last RedisQueue call that returned: [op, ok, ret]
    pair_heap,   \* an InMemoryQueue._queue driven in step with a RedisQueue
    pair_counter,\* that InMemoryQueue._counter
    pair_zset,   \* the RedisQueue's sorted set
    pair_rcounter,\* the RedisQueue's counter key
    pair_last,   \* the last call made on both: [op, mem, redis] outcomes
    codec_job,   \* a Job object
    codec_dict,  \* <<job.to_dict()>> once taken
    codec_back,  \* <<Job.from_dict(that dict)>> once built
    bt_enabled,  \* Batcher.enabled
    bt_batches,  \* Batcher._batches: key -> <<batch>> or <<>>
    bt_timers,   \* Batcher._batch_timers: key -> id of the timer task, or NoTimer
    bt_tasks,    \* the _batch_timer tasks that have not finished
    bt_delivered,\* history: the batches passed to flush_callback, in order
    bt_accepted, \* history: job_ids for which add_job returned True
    bt_submitted,\* history: job_ids add_job was called with
    bt_now,      \* the event loop's clock, in units of the model
    bt_next_id,  \* the next BatchRequest.batch_id
    qm_tenants,  \* QuotaManager.tenants: tenant_id -> TenantQuota
    qm_locked,   \* QuotaManager._lock is held by a coroutine that never releases it
    qm_now,      \* datetime.utcnow() of the quota manager's process
    qm_last,     \* history: the last QuotaManager call and what it returned
    su_backend,  \* JobStorage.backend of the storage update_status runs on
    su_store,    \* the job under its id: the Job object (memory) or its dict (redis)
    su_calls,    \* per caller: position in update_status, arguments, local job
    su_now,      \* datetime.utcnow()
    cb_documents,        \* build_context argument: the retrieved documents, in rank order
    cb_max_tokens,       \* build_context argument: max_tokens (0: not given)
    cb_include_metadata, \* build_context argument: include_metadata
    cb_window,           \* the ContextWindow returned, once built
    rp_pc,       \* RAGPipeline.process: the await it is suspended at
    rp_query,    \* the RAGQuery being processed
    rp_window,   \* the ContextWindow built for it
    rp_answer,   \* the answer of the first inference call
    rp_response, \* the RAGResponse returned
    rp_calls,    \* history: provider_manager.inference calls made
    ck_request,  \* the RAGRequest whose cache key is asked for
    ck_keys,     \* the keys generate_cache_key returned for it, call after call
    ro_pc,       \* RAG orchestrator: the stage the request in hand is suspended at
    ro_request,  \* the RAGRequest in hand
    ro_cache,    \* the result cache: the keys a result is stored under
    ro_result,   \* the RAGResult returned for the request in hand
    ro_calls,    \* history: inference calls made for the request in hand
    ro_writes,   \* history: cache writes made for the request in hand
    ro_served,   \* requests accepted so far
    hb_config,   \* a CircuitBreaker's constructor arguments
    hb_breaker,  \* its state and half_open_calls
    hb_outstanding, \* calls admitted by is_available and not yet reported
    hb_now,      \* datetime.utcnow() of that breaker's process
    dq_backend,  \* JobStorage.backend of the dead-letter store
    dq_job,      \* the Job object the caller passes to add_to_dlq
    dq_dlq,      \* JobStorage._dlq / dlq:<id> for that job: <<entry>> or <<>>
    dq_calls,    \* per requeue_from_dlq caller: position, GET reply, returned job
    dq_added,    \* history: add_to_dlq calls that stored the job
    dq_last,     \* history: the last call, what it returned, the job before it
    cl_jobs,     \* JobStorage._jobs on the memory backend: job_id -> <<job>> or <<>>
    cl_results,  \* JobStorage._results: job_id -> <<result>> or <<>>
    cl_idempotency, \* JobStorage._idempotency: key -> <<job_id>> or <<>>
    cl_now,      \* datetime.utcnow(), in hours
    cl_removed,  \* history: job_ids cleanup_old_jobs has removed
    lq_zset,     \* a long-lived RedisQueue: the sorted set at _queue_key
    lq_counter,  \* the integer at its _counter_key
    lq_enqueued  \* enqueue calls followed one by one

queueVars   == <<heap, counter, q_op, q_ret, q_ok>>
breakerVars == <<breaker, now, b_op, b_avail, h_consec, h_openInstant, h_hoSucc, h_hoProbes>>
quotaVars   == <<clock, tq, tq_ret, tq_admitted, rate_limits, daily_quotas, rl_ret, rl_admitted>>
storageVars == <<backend, st_jobs, st_idem, admission, next_uuid, h_bound>>
retryVars   == <<max_attempts, r_pc, r_attempt, r_log, r_raised, r_last>>
coreVars    == <<queueVars, breakerVars, quotaVars, storageVars, retryVars>>
providerVars == <<pm_providers, pm_endpoint, pm_pc, pm_i, pm_log, pm_result, pm_stats>>
jobStoreVars == <<js_backend, js_jobs, js_results, js_dlq, js_last>>
redisQueueVars == <<rq_zset, rq_counter, rq_procs, rq_last>>
pairVars    == <<pair_heap, pair_counter, pair_zset, pair_rcounter, pair_last>>
codecVars   == <<codec_job, codec_dict, codec_back>>
batcherVars == <<bt_enabled, bt_batches, bt_timers, bt_tasks, bt_delivered,
                 bt_accepted, bt_submitted, bt_now, bt_next_id>>
managerVars == <<qm_tenants, qm_locked, qm_now, qm_last>>
statusVars  == <<su_backend, su_store, su_calls, su_now>>
contextVars == <<cb_documents, cb_max_tokens, cb_include_metadata, cb_window>>
pipelineVars == <<rp_pc, rp_query, rp_window, rp_answer, rp_response, rp_calls>>
cacheKeyVars == <<ck_request, ck_keys>>
orchestratorVars == <<ro_pc, ro_request, ro_cache, ro_result, ro_calls, ro_writes, ro_served>>
configuredVars == <<hb_config, hb_breaker, hb_outstanding, hb_now>>
dlqVars     == <<dq_backend, dq_job, dq_dlq, dq_calls, dq_added, dq_last>>
retentionVars == <<cl_jobs, cl_results, cl_idempotency, cl_now, cl_removed>>
lifetimeVars == <<lq_zset, lq_counter, lq_enqueued>>
finalVars   == <<configuredVars, dlqVars, retentionVars, lifetimeVars>>
midVars     == <<managerVars, statusVars, contextVars, pipelineVars, cacheKeyVars,
                 orchestratorVars>>
lateVars    == <<midVars, finalVars>>
earlyVars   == <<providerVars, jobStoreVars, redisQueueVars, pairVars, codecVars, batcherVars>>
extVars     == <<earlyVars, lateVars>>
vars == <<coreVars, extVars>>

NoTime == 0 - 1     \* a datetime field that is None

(***************************************************************************)
(* Bounds of the model                                                     *)
(***************************************************************************)
max_size == 4          \* InMemoryQueue.max_size
MaxCounter == 5        \* enqueue calls explored
JobIdCount == 2        \* distinct job identifiers
failure_threshold == 3
success_threshold == 2
timeout_seconds == 2
half_open_max_calls == 2
MaxTime == 5           \* clock values explored by the breaker
ExtraCount == 2        \* how far a counter may run past its threshold
MaxProbes == 4         \* in-flight half-open grants explored
rate_limit_per_minute == 2   \* TenantQuota.rate_limit_per_minute
daily_quota == 3             \* TenantQuota.daily_quota
RATE_LIMIT_PER_MINUTE == 2   \* settings.RATE_LIMIT_PER_MINUTE
DAILY_QUOTA_LIMIT == 2       \* settings.DAILY_QUOTA_LIMIT
ClockStep == 30        \* seconds between two clock readings
MaxClockSteps == 4     \* short clock steps explored on either side of midnight
MaxDays == 2           \* midnights the clock passes
QUOTA_FREE_DAILY == 1              \* QuotaManager.tier_quotas["free"]["daily"]
QUOTA_FREE_RATE == 1               \* QuotaManager.tier_quotas["free"]["rate"]
QUOTA_BASIC_DAILY == 3             \* QuotaManager.tier_quotas["basic"]["daily"]
QUOTA_BASIC_RATE == 2              \* QuotaManager.tier_quotas["basic"]["rate"]
QUOTA_DEFAULT_DAILY == 3           \* QuotaManager.default_daily_quota
QUOTA_DEFAULT_RATE_PER_MINUTE == 2 \* QuotaManager.default_rate_limit
MaxManagerSteps == 3   \* clock steps of the quota manager's process
StatusWriters == 2     \* concurrent callers of update_status
MaxStatusTime == 2     \* clock readings while the callers run
MaxDocuments == 3      \* documents handed to build_context
max_context_tokens == 12   \* ContextBuilder.max_context_tokens (RAG_MAX_CONTEXT_TOKENS)
MaxFollowUpItems == 3  \* items of the JSON array the follow-up call answers with
MaxQuestionLines == 3  \* interrogative lines in the text of that answer
MaxMarker == 3         \* highest document number the answer mentions
MaxKeyCalls == 2       \* generate_cache_key calls on one request
MaxOrchestrated == 3   \* requests the orchestrator accepts
MaxThreshold == 2      \* largest CircuitBreaker threshold of a configuration
MaxOutstanding == 2    \* admitted calls in flight at once
MaxBreakerClock == 3   \* clock values of the configured breaker
DlqCallers == 2        \* concurrent callers of requeue_from_dlq
MaxDeadLetters == 2    \* add_to_dlq calls that store the job
RetentionJobCount == 2 \* jobs saved in the memory store
MaxRetentionClock == 3 \* hours the clock of the memory store advances
MaxRetentionHours == 2 \* largest `hours` passed to cleanup_old_jobs
MaxLifetimeEnqueues == 3 \* enqueue calls of a long-lived queue followed one by one
MaxAdmits == 4         \* TenantQuota admissions recorded in the history
MaxStoreAdmits == 3    \* RateLimitStore admissions recorded per tenant
TenantCount == 2       \* tenants of the RateLimitStore
AdmissionCount == 3    \* concurrent admissions
KeyCount == 2          \* distinct idempotency keys
MaxMaxAttempts == 3    \* largest RetryConfig.max_attempts explored
MaxProviders == 3      \* providers in the configured list
MaxRequests == 2       \* ProviderManager.inference calls explored
max_batch_size == 2    \* Batcher.max_batch_size (BATCH_MAX_SIZE)
batch_window == 2      \* Batcher.batch_window_ms, in clock units
BatchJobCount == 3     \* jobs handed to add_job
MaxBatchTime == 4      \* clock values explored by the batcher
RqProcCount == 2       \* concurrent RedisQueue.enqueue calls
initial_delay == 1     \* RetryConfig.initial_delay
max_delay == 60        \* RetryConfig.max_delay
exponential_base == 2  \* RetryConfig.exponential_base
WindowSeconds == 60    \* timedelta(minutes=1) / now - 60
DaySeconds == 86400    \* timedelta(days=1)

JobIds == 1..JobIdCount
Priorities == {"high", "normal", "low"}

(***************************************************************************)
(* jobs/models.py  Priority.to_int                                         *)
(***************************************************************************)
to_int(p) == CASE p = "high" -> 3 [] p = "normal" -> 2 [] p = "low" -> 1

\* a slip: the rank is not negated, so the min-heap serves low first
priority_int_unnegated(p) == to_int(p)

\* queue_backend.py:67  priority_int = -job.priority.to_int()
priority_int(p) == 0 - to_int(p)

(***************************************************************************)
(* heapq on a Python list; index i of the list is index i+1 here.          *)
(***************************************************************************)
\* tuple comparison of (priority_int, counter, job); counters are unique
TupleLt(a, b) == a[1] < b[1] \/ (a[1] = b[1] /\ a[2] < b[2])

RECURSIVE siftdown(_, _, _, _)
siftdown(h, startpos, pos, newitem) ==
    IF pos > startpos /\ TupleLt(newitem, h[pos \div 2])
    THEN siftdown([h EXCEPT ![pos] = h[pos \div 2]], startpos, pos \div 2, newitem)
    ELSE [h EXCEPT ![pos] = newitem]

RECURSIVE siftup_loop(_, _, _, _)
siftup_loop(h, startpos, pos, newitem) ==
    LET childpos == 2 * pos
        rightpos == childpos + 1
        c == IF rightpos <= Len(h) /\ ~TupleLt(h[childpos], h[rightpos])
             THEN rightpos ELSE childpos
    IN IF childpos <= Len(h)
       THEN siftup_loop([h EXCEPT ![pos] = h[c]], startpos, c, newitem)
       ELSE siftdown([h EXCEPT ![pos] = newitem], startpos, pos, newitem)

siftup(h, pos) == siftup_loop(h, pos, pos, h[pos])

heappush(h, item) == siftdown(Append(h, item), 1, Len(h) + 1, item)

\* the heap left by heappop; the popped item is h[1]
heappop_rest(h) ==
    LET lastelt == h[Len(h)]
        rest == SubSeq(h, 1, Len(h) - 1)
    IN IF rest = <<>> THEN rest ELSE siftup([rest EXCEPT ![1] = lastelt], 1)

heappop_item(h) == h[1]

RECURSIVE heapify_from(_, _)
heapify_from(h, i) == IF i < 1 THEN h ELSE heapify_from(siftup(h, i), i - 1)

heapify(h) == heapify_from(h, Len(h) \div 2)

RECURSIVE FilterOut(_, _)
FilterOut(h, job_id) ==
    IF h = <<>> THEN <<>>
    ELSE IF h[1][3].job_id # job_id THEN <<h[1]>> \o FilterOut(Tail(h), job_id)
         ELSE FilterOut(Tail(h), job_id)

(***************************************************************************)
(* InMemoryQueue                                                           *)
(***************************************************************************)
InitQueue ==
    /\ heap = <<>>
    /\ counter = 0
    /\ q_op = "init"
    /\ q_ret = <<>>
    /\ q_ok = FALSE

enqueue(job_id, priority) ==
    /\ counter < MaxCounter
    /\ q_op' = "enqueue"
    /\ IF Len(heap) >= max_size
       THEN /\ q_ok' = FALSE
            /\ UNCHANGED <<heap, counter>>
       ELSE /\ heap' = heappush(heap, <<priority_int(priority), counter,
                                     [job_id |-> job_id, priority |-> priority]>>)
            /\ counter' = counter + 1
            /\ q_ok' = TRUE
    /\ q_ret' = <<>>
    /\ UNCHANGED <<breakerVars, quotaVars, storageVars, retryVars, extVars>>

dequeue ==
    /\ q_op' = "dequeue"
    /\ IF heap = <<>>
       THEN /\ q_ret' = <<>>
            /\ UNCHANGED heap
       ELSE /\ q_ret' = <<heappop_item(heap)>>
            /\ heap' = heappop_rest(heap)
    /\ q_ok' = FALSE
    /\ UNCHANGED counter
    /\ UNCHANGED <<breakerVars, quotaVars, storageVars, retryVars, extVars>>

remove(job_id) ==
    /\ q_op' = "remove"
    /\ heap' = heapify(FilterOut(heap, job_id))
    /\ q_ok' = (Len(heap') < Len(heap))
    /\ q_ret' = <<>>
    /\ UNCHANGED counter
    /\ UNCHANGED <<breakerVars, quotaVars, storageVars, retryVars, extVars>>

NextQueue ==
    \/ \E j \in JobIds, p \in Priorities : enqueue(j, p)
    \/ dequeue
    \/ \E j \in JobIds : remove(j)

(***************************************************************************)
(* CircuitBreaker                                                          *)
(***************************************************************************)
InitBreaker ==
    /\ breaker = [state |-> "closed", failure_count |-> 0, success_count |-> 0,
                  last_failure_time |-> NoTime, opened_at |-> NoTime,
                  half_open_calls |-> 0]
    /\ now = 0
    /\ b_op = "init"
    /\ b_avail = FALSE
    /\ h_consec = 0
    /\ h_openInstant = NoTime
    /\ h_hoSucc = 0
    /\ h_hoProbes = 0

\* circuit_breaker.py:50 with the comparison made strict
TimeoutElapsedStrict(elapsed) == elapsed > timeout_seconds

\* circuit_breaker.py:50  elapsed >= self.timeout_seconds
TimeoutElapsed(elapsed) == elapsed >= timeout_seconds

\* is_available: the pair <<returned value, breaker afterwards>>
IsAvailableResult(b, t) ==
    IF b.state = "closed" THEN <<TRUE, b>>
    ELSE IF b.state = "open"
    THEN IF b.opened_at # NoTime /\ TimeoutElapsed(t - b.opened_at)
         THEN <<TRUE, [b EXCEPT !.state = "half_open", !.half_open_calls = 0]>>
         ELSE <<FALSE, b>>
    ELSE IF b.state = "half_open"
    THEN IF b.half_open_calls < half_open_max_calls THEN <<TRUE, b>> ELSE <<FALSE, b>>
    ELSE <<FALSE, b>>

\* record_success without the reset of the failure count in the closed branch
RecordSuccessNoReset(b) ==
    LET b1 == [b EXCEPT !.success_count = b.success_count + 1]
    IN IF b1.state = "half_open"
       THEN LET b2 == [b1 EXCEPT !.half_open_calls = b1.half_open_calls + 1]
            IN IF b2.success_count >= success_threshold
               THEN [b2 EXCEPT !.state = "closed", !.failure_count = 0,
                               !.success_count = 0, !.half_open_calls = 0]
               ELSE b2
       ELSE b1

\* record_success: the breaker afterwards
RecordSuccess(b) ==
    LET b1 == [b EXCEPT !.success_count = b.success_count + 1]
    IN IF b1.state = "half_open"
       THEN LET b2 == [b1 EXCEPT !.half_open_calls = b1.half_open_calls + 1]
            IN IF b2.success_count >= success_threshold
               THEN [b2 EXCEPT !.state = "closed", !.failure_count = 0,
                               !.success_count = 0, !.half_open_calls = 0]
               ELSE b2
       ELSE IF b1.state = "closed"
       THEN [b1 EXCEPT !.failure_count = 0]
       ELSE b1

\* record_failure whose half-open branch keeps the old opening time
RecordFailureStaleClock(b, t) ==
    LET b1 == [b EXCEPT !.failure_count = b.failure_count + 1,
                        !.last_failure_time = t]
    IN IF b1.state = "closed"
       THEN IF b1.failure_count >= failure_threshold
            THEN [b1 EXCEPT !.state = "open", !.opened_at = t, !.success_count = 0]
            ELSE b1
       ELSE IF b1.state = "half_open"
       THEN [b1 EXCEPT !.state = "open", !.success_count = 0, !.half_open_calls = 0]
       ELSE b1

\* record_failure: the breaker afterwards
RecordFailure(b, t) ==
    LET b1 == [b EXCEPT !.failure_count = b.failure_count + 1,
                        !.last_failure_time = t]
    IN IF b1.state = "closed"
       THEN IF b1.failure_count >= failure_threshold
            THEN [b1 EXCEPT !.state = "open", !.opened_at = t, !.success_count = 0]
            ELSE b1
       ELSE IF b1.state = "half_open"
       THEN [b1 EXCEPT !.state = "open", !.opened_at = t, !.success_count = 0,
                       !.half_open_calls = 0]
       ELSE b1

\* history bookkeeping shared by the three operations
History(b, b2, op, granted) ==
    /\ h_openInstant' = IF b.state # "open" /\ b2.state = "open" THEN now ELSE h_openInstant
    /\ h_consec' = CASE op = "record_success" -> 0
                     [] op = "record_failure" -> h_consec + 1
                     [] OTHER -> h_consec
    /\ h_hoSucc' = IF b2.state # "half_open" \/ b.state # "half_open" THEN 0
                   ELSE IF op = "record_success" THEN h_hoSucc + 1 ELSE h_hoSucc
    /\ h_hoProbes' = IF b2.state # "half_open" THEN 0
                     ELSE IF op = "is_available"
                          THEN (IF b.state = "half_open" THEN h_hoProbes ELSE 0)
                               + (IF granted THEN 1 ELSE 0)
                          ELSE IF h_hoProbes > 0 THEN h_hoProbes - 1 ELSE 0

is_available ==
    LET r == IsAvailableResult(breaker, now)
    IN /\ h_hoProbes < MaxProbes
       /\ breaker' = r[2]
       /\ b_avail' = r[1]
       /\ b_op' = "is_available"
       /\ History(breaker, r[2], "is_available", r[1])
       /\ UNCHANGED now
       /\ UNCHANGED <<queueVars, quotaVars, storageVars, retryVars, extVars>>

record_success ==
    /\ breaker.success_count < success_threshold + ExtraCount
    /\ breaker' = RecordSuccess(breaker)
    /\ b_op' = "record_success"
    /\ History(breaker, breaker', "record_success", FALSE)
    /\ UNCHANGED <<now, b_avail>>
    /\ UNCHANGED <<queueVars, quotaVars, storageVars, retryVars, extVars>>

record_failure ==
    /\ breaker.failure_count < failure_threshold + ExtraCount
    /\ breaker' = RecordFailure(breaker, now)
    /\ b_op' = "record_failure"
    /\ History(breaker, breaker', "record_failure", FALSE)
    /\ UNCHANGED <<now, b_avail>>
    /\ UNCHANGED <<queueVars, quotaVars, storageVars, retryVars, extVars>>

\* the clock advances between calls
Tick ==
    /\ now < MaxTime
    /\ now' = now + 1
    /\ b_op' = "tick"
    /\ UNCHANGED <<breaker, b_avail, h_consec, h_openInstant, h_hoSucc, h_hoProbes>>
    /\ UNCHANGED <<queueVars, quotaVars, storageVars, retryVars, extVars>>

NextBreaker == is_available \/ record_success \/ record_failure \/ Tick

(***************************************************************************)
(* TenantQuota (jobs/quota.py) and RateLimitStore (core/limiter.py)        *)
(***************************************************************************)
Tenants == 1..TenantCount
NoQuota == [date |-> NoTime, count |-> 0]    \* tenant_id not in daily_quotas

InitQuota ==
    /\ clock = 0
    /\ tq = [daily_usage |-> 0, last_reset |-> 0, request_timestamps |-> <<>>]
    /\ tq_ret = "none"
    /\ tq_admitted = <<>>
    /\ rate_limits = [t \in Tenants |-> <<>>]
    /\ daily_quotas = [t \in Tenants |-> NoQuota]
    /\ rl_ret = [op |-> "none", tenant |-> 0, allowed |-> FALSE, remaining |-> 0]
    /\ rl_admitted = [t \in Tenants |-> <<>>]

\* quota.py:67  popleft while request_timestamps[0] < cutoff
RECURSIVE CleanOld(_, _)
CleanOld(ts, cutoff) ==
    IF ts # <<>> /\ ts[1] < cutoff THEN CleanOld(Tail(ts), cutoff) ELSE ts

\* check_and_consume of a TenantQuota whose limits are dq a day and rl a
\* minute: <<reason, TenantQuota afterwards>>
TenantCheck(q, t, dq, rl) ==
    LET q1 == IF t - q.last_reset >= DaySeconds
              THEN [q EXCEPT !.daily_usage = 0, !.last_reset = t]
              ELSE q
    IN IF q1.daily_usage >= dq
       THEN <<"daily_quota_exceeded", q1>>
       ELSE LET q2 == [q1 EXCEPT !.request_timestamps =
                                     CleanOld(q1.request_timestamps, t - WindowSeconds)]
            IN IF Len(q2.request_timestamps) >= rl
               THEN <<"rate_limit_exceeded", q2>>
               ELSE <<"allowed",
                      [q2 EXCEPT !.daily_usage = q2.daily_usage + 1,
                                 !.request_timestamps = Append(q2.request_timestamps, t)]>>

CheckAndConsume(q, t) == TenantCheck(q, t, daily_quota, rate_limit_per_minute)

check_and_consume ==
    LET r == CheckAndConsume(tq, clock)
    IN /\ Len(tq_admitted) < MaxAdmits
       /\ tq' = r[2]
       /\ tq_ret' = r[1]
       /\ tq_admitted' = IF r[1] = "allowed" THEN Append(tq_admitted, clock)
                         ELSE tq_admitted
       /\ UNCHANGED <<clock, rate_limits, daily_quotas, rl_ret, rl_admitted>>
       /\ UNCHANGED <<queueVars, breakerVars, storageVars, retryVars, extVars>>

get_info ==
    /\ tq' = [tq EXCEPT !.request_timestamps =
                            CleanOld(tq.request_timestamps, clock - WindowSeconds)]
    /\ tq_ret' = "info"
    /\ UNCHANGED <<clock, tq_admitted, rate_limits, daily_quotas, rl_ret, rl_admitted>>
    /\ UNCHANGED <<queueVars, breakerVars, storageVars, retryVars, extVars>>

\* limiter.py:47-50  keep the entries with ts > one_minute_ago
RECURSIVE KeepRecent(_, _)
KeepRecent(l, one_minute_ago) ==
    IF l = <<>> THEN <<>>
    ELSE IF l[1][1] > one_minute_ago
         THEN <<l[1]>> \o KeepRecent(Tail(l), one_minute_ago)
         ELSE KeepRecent(Tail(l), one_minute_ago)

RECURSIVE SumCounts(_)
SumCounts(l) == IF l = <<>> THEN 0 ELSE l[1][2] + SumCounts(Tail(l))

store_check_rate_limit(tenant_id) ==
    LET kept == KeepRecent(rate_limits[tenant_id], clock - WindowSeconds)
        current_count == SumCounts(kept)
    IN /\ Len(rl_admitted[tenant_id]) < MaxStoreAdmits
       /\ IF current_count >= RATE_LIMIT_PER_MINUTE
          THEN /\ rate_limits' = [rate_limits EXCEPT ![tenant_id] = kept]
               /\ rl_ret' = [op |-> "check_rate_limit", tenant |-> tenant_id,
                             allowed |-> FALSE, remaining |-> 0]
               /\ UNCHANGED rl_admitted
          ELSE /\ rate_limits' = [rate_limits EXCEPT
                                     ![tenant_id] = Append(kept, <<clock, 1>>)]
               /\ rl_ret' = [op |-> "check_rate_limit", tenant |-> tenant_id,
                             allowed |-> TRUE,
                             remaining |-> RATE_LIMIT_PER_MINUTE - current_count - 1]
               /\ rl_admitted' = [rl_admitted EXCEPT
                                     ![tenant_id] = Append(rl_admitted[tenant_id], clock)]
       /\ UNCHANGED <<clock, tq, tq_ret, tq_admitted, daily_quotas>>
       /\ UNCHANGED <<queueVars, breakerVars, storageVars, retryVars, extVars>>

\* datetime.now().date(), as the number of the day
Today(t) == t \div DaySeconds

store_check_daily_quota(tenant_id) ==
    LET today == Today(clock)
        quota_data == IF daily_quotas[tenant_id].date # today
                      THEN [date |-> today, count |-> 0]
                      ELSE daily_quotas[tenant_id]
        current_count == quota_data.count
    IN /\ IF current_count >= DAILY_QUOTA_LIMIT
          THEN /\ daily_quotas' = [daily_quotas EXCEPT ![tenant_id] = quota_data]
               /\ rl_ret' = [op |-> "check_daily_quota", tenant |-> tenant_id,
                             allowed |-> FALSE, remaining |-> 0]
          ELSE /\ daily_quotas' = [daily_quotas EXCEPT ![tenant_id] =
                                      [quota_data EXCEPT !.count = current_count + 1]]
               /\ rl_ret' = [op |-> "check_daily_quota", tenant |-> tenant_id,
                             allowed |-> TRUE,
                             remaining |-> DAILY_QUOTA_LIMIT - current_count - 1]
       /\ UNCHANGED <<clock, tq, tq_ret, tq_admitted, rate_limits, rl_admitted>>
       /\ UNCHANGED <<queueVars, breakerVars, storageVars, retryVars, extVars>>

\* time passes between two admission checks: a short step, or up to the next
\* midnight
ClockTick(d) ==
    /\ clock + d <= MaxDays * DaySeconds + MaxClockSteps * ClockStep
    /\ (clock % DaySeconds) + d <= DaySeconds
    /\ d = ClockStep => (clock % DaySeconds) + d <= MaxClockSteps * ClockStep
    /\ clock' = clock + d
    /\ tq_ret' = "none"
    /\ rl_ret' = [op |-> "none", tenant |-> 0, allowed |-> FALSE, remaining |-> 0]
    /\ UNCHANGED <<tq, tq_admitted, rate_limits, daily_quotas, rl_admitted>>
    /\ UNCHANGED <<queueVars, breakerVars, storageVars, retryVars, extVars>>

NextQuota ==
    \/ check_and_consume
    \/ get_info
    \/ \E d \in {ClockStep, DaySeconds - (clock % DaySeconds)} : ClockTick(d)

NextLimiter ==
    \/ \E t \in Tenants : store_check_rate_limit(t)
    \/ \E t \in Tenants : store_check_daily_quota(t)
    \/ \E d \in {ClockStep, DaySeconds - (clock % DaySeconds)} : ClockTick(d)

(***************************************************************************)
(* JobStorage (jobs/storage.py): the idempotency interlock of admission    *)
(***************************************************************************)
Admissions == 1..AdmissionCount
Keys == 1..KeyCount
NoJob == 0      \* dict.get / redis.get found nothing

Backends == {"memory", "redis"}

InitStorage(b) ==
    /\ backend = b
    /\ st_jobs = [j \in {} |-> NoJob]
    /\ st_idem = [k \in Keys |-> NoJob]
    /\ admission = [p \in Admissions |-> [pc |-> "idle", key |-> 0, job_id |-> NoJob]]
    /\ next_uuid = 1
    /\ h_bound = [k \in Keys |-> {}]

\* check_idempotency: the job_id the key maps to, NoJob for None
CheckIdempotency(idem, key) == idem[key]

\* the job -> key entry written by self._jobs[job.job_id] = job / setex job:<id>
PutJob(jobs, job_id, key) ==
    [j \in (DOMAIN jobs) \cup {job_id} |-> IF j = job_id THEN key ELSE jobs[j]]

\* an admission with idempotency key k calls check_idempotency; on a hit it
\* answers with the job found, otherwise it creates a Job (job_id = uuid4())
admit_check(p, k) ==
    /\ admission[p].pc = "idle"
    /\ LET found == CheckIdempotency(st_idem, k)
       IN IF found # NoJob
          THEN /\ admission' = [admission EXCEPT ![p] = [pc |-> "done", key |-> k, job_id |-> found]]
               /\ UNCHANGED next_uuid
          ELSE /\ admission' = [admission EXCEPT ![p] = [pc |-> "save", key |-> k, job_id |-> next_uuid]]
               /\ next_uuid' = next_uuid + 1
    /\ UNCHANGED <<backend, st_jobs, st_idem, h_bound>>
    /\ UNCHANGED <<queueVars, breakerVars, quotaVars, retryVars, extVars>>

\* save_job on the in-memory backend: both writes under the lock
save_job_memory(p) ==
    /\ admission[p].pc = "save"
    /\ backend = "memory"
    /\ st_jobs' = PutJob(st_jobs, admission[p].job_id, admission[p].key)
    /\ st_idem' = [st_idem EXCEPT ![admission[p].key] = admission[p].job_id]
    /\ h_bound' = [h_bound EXCEPT ![admission[p].key] = @ \cup {admission[p].job_id}]
    /\ admission' = [admission EXCEPT ![p].pc = "done"]
    /\ UNCHANGED <<backend, next_uuid>>
    /\ UNCHANGED <<queueVars, breakerVars, quotaVars, retryVars, extVars>>

\* save_job on redis: first await, setex job:<id>
save_job_redis_job(p) ==
    /\ admission[p].pc = "save"
    /\ backend = "redis"
    /\ st_jobs' = PutJob(st_jobs, admission[p].job_id, admission[p].key)
    /\ admission' = [admission EXCEPT ![p].pc = "save_idem"]
    /\ UNCHANGED <<backend, st_idem, next_uuid, h_bound>>
    /\ UNCHANGED <<queueVars, breakerVars, quotaVars, retryVars, extVars>>

\* save_job on redis: second await, setex idem:<key>
save_job_redis_idem(p) ==
    /\ admission[p].pc = "save_idem"
    /\ st_idem' = [st_idem EXCEPT ![admission[p].key] = admission[p].job_id]
    /\ h_bound' = [h_bound EXCEPT ![admission[p].key] = @ \cup {admission[p].job_id}]
    /\ admission' = [admission EXCEPT ![p].pc = "done"]
    /\ UNCHANGED <<backend, st_jobs, next_uuid>>
    /\ UNCHANGED <<queueVars, breakerVars, quotaVars, retryVars, extVars>>

NextStorage ==
    \/ \E p \in Admissions, k \in Keys : admit_check(p, k)
    \/ \E p \in Admissions : save_job_memory(p)
    \/ \E p \in Admissions : save_job_redis_job(p)
    \/ \E p \in Admissions : save_job_redis_idem(p)

(***************************************************************************)
(* Retry policy (jobs/retry.py)                                            *)
(***************************************************************************)
\* strings are tuples of characters, so that lower() and `in` can be computed
UpperCase == <<"A","B","C","D","E","F","G","H","I","J","K","L","M",
               "N","O","P","Q","R","S","T","U","V","W","X","Y","Z">>
LowerCase == <<"a","b","c","d","e","f","g","h","i","j","k","l","m",
               "n","o","p","q","r","s","t","u","v","w","x","y","z">>

LowerChar(c) ==
    IF \E i \in 1..26 : UpperCase[i] = c
    THEN LowerCase[CHOOSE i \in 1..26 : UpperCase[i] = c]
    ELSE c

\* str.lower()
Lower(str) == [i \in 1..Len(str) |-> LowerChar(str[i])]

\* pattern in error_str
Contains(str, pattern) ==
    \E i \in 0..(Len(str) - Len(pattern)) :
        \A j \in 1..Len(pattern) : str[i + j] = pattern[j]

retryable_patterns == <<
    <<"t", "i", "m", "e", "o", "u", "t">>,
    <<"t", "i", "m", "e", "d", " ", "o", "u", "t">>,
    <<"c", "o", "n", "n", "e", "c", "t", "i", "o", "n", " ", "r", "e", "s", "e", "t">>,
    <<"c", "o", "n", "n", "e", "c", "t", "i", "o", "n", " ", "r", "e", "f", "u", "s", "e", "d">>,
    <<"t", "e", "m", "p", "o", "r", "a", "r", "i", "l", "y", " ", "u", "n", "a", "v", "a", "i", "l", "a", "b", "l", "e">>,
    <<"5", "0", "3">>,
    <<"5", "0", "4">>,
    <<"5", "0", "2">>,
    <<"r", "a", "t", "e", " ", "l", "i", "m", "i", "t">>,
    <<"t", "o", "o", " ", "m", "a", "n", "y", " ", "r", "e", "q", "u", "e", "s", "t", "s">>,
    <<"4", "2", "9">>
>>

\* the exception classes of retry.py and the plain Exception; ServerError
\* stands for the three subclasses of RetryableError, which differ in name only
ErrorClasses == {"RetryableError", "ServerError", "NonRetryableError", "Exception"}

\* isinstance(error, RetryableError)
IsRetryableInstance(cls) ==
    cls \in {"RetryableError", "ServerError"}

\* isinstance(error, NonRetryableError)
IsNonRetryableInstance(cls) == cls = "NonRetryableError"

\* the messages errors are raised with
Messages == {
    <<"4", "0", "1", " ", "U", "n", "a", "u", "t", "h", "o", "r", "i", "z", "e", "d">>,
    <<"R", "e", "q", "u", "e", "s", "t", " ", "T", "i", "m", "e", "o", "u", "t">>,
    <<"H", "T", "T", "P", " ", "5", "0", "3">>
}

Errors == [cls : ErrorClasses, msg : Messages]

\* is_retryable_error: the tag test, then the legacy substring matcher
is_retryable_error(error) ==
    IF IsRetryableInstance(error.cls) THEN TRUE
    ELSE LET error_str == Lower(error.msg)
         IN \E i \in 1..Len(retryable_patterns) :
               Contains(error_str, retryable_patterns[i])

RECURSIVE Pow(_, _)
Pow(b, n) == IF n = 0 THEN 1 ELSE b * Pow(b, n - 1)

Min(a, b) == IF a < b THEN a ELSE b

\* calculate_delay before jitter, in seconds
BaseDelay(attempt) == Min(initial_delay * Pow(exponential_base, attempt), max_delay)

\* random.uniform(0.75, 1.25), in percent: the two extremes
JitterFactors == {75, 125}

\* retry.py:148 with the bound off by one
NoMoreAttemptsOffByOne(attempt) == attempt >= max_attempts

\* retry.py:148  attempt >= self.config.max_attempts - 1
NoMoreAttempts(attempt) == attempt >= max_attempts - 1

NoError == <<>>

InitRetry(m) ==
    /\ max_attempts = m
    /\ r_pc = "call"
    /\ r_attempt = 0
    /\ r_log = <<>>
    /\ r_raised = NoError
    /\ r_last = <<>>

\* range(max_attempts) is empty: the code after the loop raises
retry_no_attempt ==
    /\ r_pc = "call"
    /\ r_attempt >= max_attempts
    /\ r_pc' = "raised"
    /\ r_raised' = <<[cls |-> "Exception", msg |-> <<"R","e","t","r","y">>]>>
    /\ UNCHANGED <<max_attempts, r_attempt, r_log, r_last>>
    /\ UNCHANGED <<queueVars, breakerVars, quotaVars, storageVars, extVars>>

\* await func(...) returns
retry_call_ok ==
    /\ r_pc = "call"
    /\ r_attempt < max_attempts
    /\ r_log' = Append(r_log, <<"ok">>)
    /\ r_pc' = "returned"
    /\ UNCHANGED <<max_attempts, r_attempt, r_raised, r_last>>
    /\ UNCHANGED <<queueVars, breakerVars, quotaVars, storageVars, extVars>>

\* await func(...) raises e: the except branch up to the raise or the sleep
retry_call_error(e) ==
    /\ r_pc = "call"
    /\ r_attempt < max_attempts
    /\ r_log' = Append(r_log, <<"error", e>>)
    /\ r_last' = <<e, is_retryable_error(e)>>
    /\ IF ~is_retryable_error(e)
       THEN r_pc' = "raised" /\ r_raised' = <<e>>
       ELSE IF NoMoreAttempts(r_attempt)
       THEN r_pc' = "raised" /\ r_raised' = <<e>>
       ELSE r_pc' = "sleep" /\ UNCHANGED r_raised
    /\ UNCHANGED <<max_attempts, r_attempt>>
    /\ UNCHANGED <<queueVars, breakerVars, quotaVars, storageVars, extVars>>

\* await asyncio.sleep(delay), then the next iteration of the loop
retry_sleep(jitter) ==
    /\ r_pc = "sleep"
    /\ r_log' = Append(r_log, <<"sleep", BaseDelay(r_attempt) * jitter>>)
    /\ r_attempt' = r_attempt + 1
    /\ r_pc' = "call"
    /\ UNCHANGED <<max_attempts, r_raised, r_last>>
    /\ UNCHANGED <<queueVars, breakerVars, quotaVars, storageVars, extVars>>

NextRetry ==
    \/ retry_no_attempt
    \/ retry_call_ok
    \/ \E e \in Errors : retry_call_error(e)
    \/ \E j \in JitterFactors : retry_sleep(j)

(***************************************************************************)
(* providers/provider_manager.py: ProviderManager.inference, with the      *)
(* adapters of providers/deepseek_provider.py and providers/grok_provider. *)
(* A provider is named by its registry key; "other" stands for any other   *)
(* BaseProvider subclass placed in the list, whose inference returns when  *)
(* its endpoint answers 200 and raises otherwise.  (The registry's         *)
(* InLegalBERTProvider cannot be constructed by _initialize_providers: its *)
(* __init__ takes no arguments, so a manager holding it never exists.)     *)
(***************************************************************************)
ProviderKinds == {"deepseek", "grok", "other"}
TransportError == 0          \* the HTTP client raised (timeout, connection refused)
MalformedBody == 0 - 200     \* status 200 whose body has no "choices"
Statuses == {200, 503, TransportError, MalformedBody}

\* BaseProvider.provider_name of each adapter
ProviderName(kind) ==
    CASE kind = "deepseek" -> "DeepSeek"
      [] kind = "grok" -> "Grok"
      [] OTHER -> "Other"

\* provider.inference(...) against an endpoint answering `status`:
\* whether it raised, whether the response is the adapter's canned
\* substitute, and how many HTTP requests it sent
ProviderInference(kind, status) ==
    CASE kind = "deepseek" ->
           \* one POST; any non-200 status and any exception are answered
           \* with a generated analysis instead of being raised
           [raised |-> FALSE, fallback |-> status # 200, http_calls |-> 1]
      [] kind = "grok" ->
           \* placeholder: builds a response without any HTTP request
           [raised |-> FALSE, fallback |-> FALSE, http_calls |-> 0]
      [] OTHER ->
           [raised |-> status # 200, fallback |-> FALSE, http_calls |-> 1]

\* sequences over S of length at most n
SeqUpTo(S, n) == UNION {[1..len -> S] : len \in 0..n}

InitProviders ==
    /\ pm_providers = <<"deepseek", "grok">>
    /\ pm_endpoint = <<>>
    /\ pm_pc = "idle"
    /\ pm_i = 0
    /\ pm_log = <<>>
    /\ pm_result = <<>>
    /\ pm_stats = [total_requests |-> 0, fallback_count |-> 0,
                   provider_usage |-> [kind \in ProviderKinds |-> 0]]

\* a manager holding any list of at most MaxProviders providers
InitAnyProviders ==
    /\ pm_providers \in SeqUpTo(ProviderKinds, MaxProviders)
    /\ pm_endpoint = <<>>
    /\ pm_pc = "idle"
    /\ pm_i = 0
    /\ pm_log = <<>>
    /\ pm_result = <<>>
    /\ pm_stats = [total_requests |-> 0, fallback_count |-> 0,
                   provider_usage |-> [kind \in ProviderKinds |-> 0]]

\* `if i < len(self.providers) - 1` with i counted from one
HasNextProviderShort(i, len) == i < len - 1
HasNextProvider(i, len) == i < len

\* inference is entered: total_requests += 1; an empty list falls through
\* the loop to `raise Exception("No providers available")`
pm_inference ==
    /\ pm_pc = "idle"
    /\ pm_stats.total_requests < MaxRequests
    /\ \E ep \in [1..Len(pm_providers) -> Statuses] : pm_endpoint' = ep
    /\ pm_stats' = [pm_stats EXCEPT !.total_requests = @ + 1]
    /\ pm_log' = <<>>
    /\ IF Len(pm_providers) = 0
       THEN pm_pc' = "raised" /\ pm_i' = 0
            /\ pm_result' = <<"No providers available">>
       ELSE pm_pc' = "loop" /\ pm_i' = 1 /\ pm_result' = <<>>
    /\ UNCHANGED pm_providers
    /\ UNCHANGED <<coreVars, jobStoreVars, redisQueueVars, pairVars, codecVars, batcherVars, lateVars>>

\* one iteration of the loop: await provider.inference, then either the
\* success branch or the except branch
pm_call ==
    /\ pm_pc = "loop"
    /\ LET kind == pm_providers[pm_i]
           out == ProviderInference(kind, pm_endpoint[pm_i])
       IN /\ pm_log' = Append(pm_log, [index |-> pm_i, raised |-> out.raised,
                                       http_calls |-> out.http_calls])
          /\ IF ~out.raised
             THEN /\ pm_stats' = [pm_stats EXCEPT
                         !.provider_usage[kind] = @ + 1,
                         !.fallback_count = IF pm_i > 1 THEN @ + 1 ELSE @]
                  /\ pm_result' = <<[provider_name |-> ProviderName(kind),
                                     fallback_occurred |-> pm_i > 1,
                                     attempt_number |-> pm_i,
                                     fallback |-> out.fallback]>>
                  /\ pm_pc' = "returned"
                  /\ UNCHANGED pm_i
             ELSE IF HasNextProvider(pm_i, Len(pm_providers))
                  THEN /\ pm_i' = pm_i + 1
                       /\ UNCHANGED <<pm_pc, pm_result, pm_stats>>
                  ELSE /\ pm_pc' = "raised"
                       /\ pm_result' = <<"All providers failed">>
                       /\ UNCHANGED <<pm_i, pm_stats>>
    /\ UNCHANGED <<pm_providers, pm_endpoint>>
    /\ UNCHANGED <<coreVars, jobStoreVars, redisQueueVars, pairVars, codecVars, batcherVars, lateVars>>

\* the caller has received the response or the exception
pm_done ==
    /\ pm_pc \in {"returned", "raised"}
    /\ pm_pc' = "idle"
    /\ UNCHANGED <<pm_providers, pm_endpoint, pm_i, pm_log, pm_result, pm_stats>>
    /\ UNCHANGED <<coreVars, jobStoreVars, redisQueueVars, pairVars, codecVars, batcherVars, lateVars>>

NextProviders == pm_inference \/ pm_call \/ pm_done

(***************************************************************************)
(* jobs/storage.py: JobStorage, the job, result and dead-letter stores.    *)
(* A job is the record of the fields the store reads or writes.  On the    *)
(* memory backend _jobs and _dlq hold references to the caller's Job       *)
(* object (one object per job_id), so a write through one of them shows    *)
(* through the other; on the redis backend each key holds its own JSON     *)
(* copy.  Every method is taken as one step.                               *)
(***************************************************************************)
JobStatuses == {"pending", "queued", "running", "completed", "failed",
                "cancelled", "timeout", "dead_letter"}
NoErr == 0                          \* Job.error is None
NoResult == 0                       \* Job.result / JobResult.result is None
ErrorValues == {NoErr, 1}
ResultValues == {NoResult, 1}       \* None or a result payload
AttemptCounts == {0, 1}             \* Job.attempt_count values stored
StoredJobIds == {"job-1"}
JobRecords == [status : JobStatuses, attempt_count : AttemptCounts,
               error : ErrorValues, result : ResultValues]
NoLast == [op |-> "none", job_id |-> "none", from |-> "none", to |-> "none",
           had |-> FALSE, ret |-> <<>>]

InitJobStore(b) ==
    /\ js_backend = b
    /\ js_jobs = [id \in StoredJobIds |-> <<>>]
    /\ js_results = [id \in StoredJobIds |-> <<>>]
    /\ js_dlq = [id \in StoredJobIds |-> <<>>]
    /\ js_last = NoLast

\* the other store's view of the same Job object after it was written:
\* shared on the memory backend, untouched on redis
Aliased(store, id, rec) ==
    IF js_backend = "memory" /\ store[id] # <<>>
    THEN [store EXCEPT ![id] = <<rec>>]
    ELSE store

\* save_job(job): _jobs[job.job_id] = job / setex job:<id>
js_save_job(id, rec) ==
    /\ js_jobs' = [js_jobs EXCEPT ![id] = <<rec>>]
    /\ js_dlq' = Aliased(js_dlq, id, rec)
    /\ js_last' = [NoLast EXCEPT !.op = "save_job", !.job_id = id]
    /\ UNCHANGED <<js_backend, js_results>>
    /\ UNCHANGED <<coreVars, providerVars, redisQueueVars, pairVars, codecVars, batcherVars, lateVars>>

\* save_result(result): _results[result.job_id] = result / setex result:<id>
js_save_result(id, res) ==
    /\ js_results' = [js_results EXCEPT ![id] = <<res>>]
    /\ js_last' = [NoLast EXCEPT !.op = "save_result", !.job_id = id]
    /\ UNCHANGED <<js_backend, js_jobs, js_dlq>>
    /\ UNCHANGED <<coreVars, providerVars, redisQueueVars, pairVars, codecVars, batcherVars, lateVars>>

\* the job as add_to_dlq leaves it before the backend write
DeadLettered(rec, err) == [rec EXCEPT !.status = "dead_letter", !.error = err]

\* add_to_dlq(job, error)
js_add_to_dlq(id, rec, err) ==
    \* on the memory backend a job the store already holds is that object
    /\ (js_backend = "memory" /\ js_jobs[id] # <<>>) => rec = js_jobs[id][1]
    /\ (js_backend = "memory" /\ js_dlq[id] # <<>>) => rec = js_dlq[id][1]
    /\ js_dlq' = [js_dlq EXCEPT ![id] = <<DeadLettered(rec, err)>>]
    /\ js_jobs' = Aliased(js_jobs, id, DeadLettered(rec, err))
    /\ js_last' = [NoLast EXCEPT !.op = "add_to_dlq", !.job_id = id,
                      !.from = rec.status, !.to = "dead_letter",
                      !.ret = <<DeadLettered(rec, err)>>]
    /\ UNCHANGED <<js_backend, js_results>>
    /\ UNCHANGED <<coreVars, providerVars, redisQueueVars, pairVars, codecVars, batcherVars, lateVars>>

\* the job as requeue_from_dlq hands it back
RequeuedKeepsAttempts(rec) == [rec EXCEPT !.status = "pending", !.error = NoErr]
Requeued(rec) ==
    [rec EXCEPT !.status = "pending", !.attempt_count = 0, !.error = NoErr]

\* requeue_from_dlq(job_id): pop the entry and reset it, or None
js_requeue_from_dlq(id) ==
    /\ IF js_dlq[id] # <<>>
       THEN /\ js_dlq' = [js_dlq EXCEPT ![id] = <<>>]
            /\ js_jobs' = Aliased(js_jobs, id, Requeued(js_dlq[id][1]))
            /\ js_last' = [NoLast EXCEPT !.op = "requeue_from_dlq", !.job_id = id,
                              !.from = js_dlq[id][1].status, !.to = "pending",
                              !.had = TRUE, !.ret = <<Requeued(js_dlq[id][1])>>]
       ELSE /\ js_last' = [NoLast EXCEPT !.op = "requeue_from_dlq", !.job_id = id]
            /\ UNCHANGED <<js_dlq, js_jobs>>
    /\ UNCHANGED <<js_backend, js_results>>
    /\ UNCHANGED <<coreVars, providerVars, redisQueueVars, pairVars, codecVars, batcherVars, lateVars>>

\* update_status(job_id, status, error): nothing when get_job finds no job
js_update_status(id, status, err) ==
    /\ IF js_jobs[id] # <<>>
       THEN LET job == js_jobs[id][1]
                upd == [job EXCEPT !.status = status,
                                   !.error = IF err # NoErr THEN err ELSE @]
            IN /\ js_jobs' = [js_jobs EXCEPT ![id] = <<upd>>]
               /\ js_dlq' = Aliased(js_dlq, id, upd)
               /\ js_last' = [NoLast EXCEPT !.op = "update_status", !.job_id = id,
                                 !.from = job.status, !.to = status]
       ELSE /\ js_last' = [NoLast EXCEPT !.op = "update_status", !.job_id = id]
            /\ UNCHANGED <<js_jobs, js_dlq>>
    /\ UNCHANGED <<js_backend, js_results>>
    /\ UNCHANGED <<coreVars, providerVars, redisQueueVars, pairVars, codecVars, batcherVars, lateVars>>

NextJobStore ==
    \E id \in StoredJobIds :
       \/ \E rec \in JobRecords : js_save_job(id, rec)
       \/ \E res \in ResultValues : js_save_result(id, res)
       \/ \E rec \in JobRecords, err \in ErrorValues : js_add_to_dlq(id, rec, err)
       \/ js_requeue_from_dlq(id)
       \/ \E status \in JobStatuses, err \in ErrorValues : js_update_status(id, status, err)

(***************************************************************************)
(* jobs/queue_backend.py: RedisQueue.  The sorted set is a set of          *)
(* [member, score] with one entry per member; the member is the job's      *)
(* JSON text, which is the same text exactly when the job is the same.     *)
(***************************************************************************)
QueueJobs == [job_id : JobIds, priority : Priorities]
ScoreMultiplier == 1000000000

\* score = -priority_score + counter, the number hi * ScoreMultiplier + lo;
\* it is kept in two parts because 3 * 10^9 exceeds the checker's integers
Score(priority, c) == [hi |-> 0 - to_int(priority), lo |-> c]

\* a <= b on scores, computed exactly
ScoreLe(a, b) == (a.hi - b.hi) * ScoreMultiplier <= b.lo - a.lo

\* ZADD key {member: score}: adds the member or moves it to the new score
ZAdd(zset, member, score) ==
    {e \in zset : e.member # member} \cup {[member |-> member, score |-> score]}

\* the entry ZPOPMIN / ZRANGE 0 0 serves: the lowest score
ZMin(zset) == CHOOSE e \in zset : \A f \in zset : ScoreLe(e.score, f.score)

\* ZRANGE key 0 -1: all entries by ascending score
RECURSIVE ZRange(_)
ZRange(zset) ==
    IF zset = {} THEN <<>>
    ELSE <<ZMin(zset)>> \o ZRange(zset \ {ZMin(zset)})

RqProcs == 1..RqProcCount
RqIdle == [pc |-> "idle", job |-> <<>>, counter |-> 0]

InitRedisQueue ==
    /\ rq_zset = {}
    /\ rq_counter = 0
    /\ rq_procs = [p \in RqProcs |-> RqIdle]
    /\ rq_last = [op |-> "init", ok |-> FALSE, ret |-> <<>>]

RqOthers == <<coreVars, providerVars, jobStoreVars, pairVars, codecVars, batcherVars, lateVars>>

\* enqueue, first await: current_size = zcard; full -> return False
rq_enqueue_zcard(p, job) ==
    /\ rq_procs[p].pc = "idle"
    /\ rq_counter + Cardinality({r \in RqProcs : rq_procs[r].pc = "incr"}) < MaxCounter
    /\ IF Cardinality(rq_zset) >= max_size
       THEN /\ rq_last' = [op |-> "enqueue", ok |-> FALSE, ret |-> <<>>]
            /\ UNCHANGED rq_procs
       ELSE /\ rq_procs' = [rq_procs EXCEPT ![p] = [pc |-> "incr", job |-> <<job>>,
                                                    counter |-> 0]]
            /\ UNCHANGED rq_last
    /\ UNCHANGED <<rq_zset, rq_counter>>
    /\ UNCHANGED RqOthers

\* enqueue, second await: counter = incr(counter_key)
rq_enqueue_incr(p) ==
    /\ rq_procs[p].pc = "incr"
    /\ rq_counter' = rq_counter + 1
    /\ rq_procs' = [rq_procs EXCEPT ![p].pc = "zadd", ![p].counter = rq_counter + 1]
    /\ UNCHANGED <<rq_zset, rq_last>>
    /\ UNCHANGED RqOthers

\* enqueue, third await: zadd, then return True
rq_enqueue_zadd(p) ==
    /\ rq_procs[p].pc = "zadd"
    /\ LET job == rq_procs[p].job[1]
       IN rq_zset' = ZAdd(rq_zset, job, Score(job.priority, rq_procs[p].counter))
    /\ rq_procs' = [rq_procs EXCEPT ![p] = RqIdle]
    /\ rq_last' = [op |-> "enqueue", ok |-> TRUE, ret |-> <<>>]
    /\ UNCHANGED rq_counter
    /\ UNCHANGED RqOthers

\* dequeue: one zpopmin
rq_dequeue ==
    /\ IF rq_zset = {}
       THEN /\ rq_last' = [op |-> "dequeue", ok |-> FALSE, ret |-> <<>>]
            /\ UNCHANGED rq_zset
       ELSE /\ rq_last' = [op |-> "dequeue", ok |-> FALSE,
                           ret |-> <<ZMin(rq_zset).member>>]
            /\ rq_zset' = rq_zset \ {ZMin(rq_zset)}
    /\ UNCHANGED <<rq_counter, rq_procs>>
    /\ UNCHANGED RqOthers

NextRedisQueue ==
    \/ \E p \in RqProcs, job \in QueueJobs : rq_enqueue_zcard(p, job)
    \/ \E p \in RqProcs : rq_enqueue_incr(p)
    \/ \E p \in RqProcs : rq_enqueue_zadd(p)
    \/ rq_dequeue

(***************************************************************************)
(* One InMemoryQueue and one RedisQueue, constructed with the same         *)
(* max_size, receiving the same calls one after another.  Each call is     *)
(* given by what it returns and the queue it leaves.                       *)
(***************************************************************************)
\* InMemoryQueue on the list h with counter c
MemEnqueue(h, c, job) ==
    IF Len(h) >= max_size
    THEN [heap |-> h, counter |-> c, out |-> <<FALSE>>]
    ELSE [heap |-> heappush(h, <<priority_int(job.priority), c, job>>),
          counter |-> c + 1, out |-> <<TRUE>>]

MemDequeue(h) ==
    IF h = <<>> THEN [heap |-> h, out |-> <<>>]
    ELSE [heap |-> heappop_rest(h), out |-> <<heappop_item(h)[3].job_id>>]

MemPeek(h) == IF h = <<>> THEN <<>> ELSE <<h[1][3].job_id>>

MemRemove(h, job_id) ==
    LET kept == heapify(FilterOut(h, job_id))
    IN [heap |-> kept, out |-> <<Len(kept) < Len(h)>>]

\* RedisQueue on the sorted set zset with counter key c, no call failing
RedisEnqueue(zset, c, job) ==
    IF Cardinality(zset) >= max_size
    THEN [zset |-> zset, counter |-> c, out |-> <<FALSE>>]
    ELSE [zset |-> ZAdd(zset, job, Score(job.priority, c + 1)),
          counter |-> c + 1, out |-> <<TRUE>>]

RedisDequeue(zset) ==
    IF zset = {} THEN [zset |-> zset, out |-> <<>>]
    ELSE [zset |-> zset \ {ZMin(zset)}, out |-> <<ZMin(zset).member.job_id>>]

RedisPeek(zset) == IF zset = {} THEN <<>> ELSE <<ZMin(zset).member.job_id>>

\* the first entry of ZRANGE 0 -1 whose job_id matches is removed
RedisRemove(zset, job_id) ==
    LET all == ZRange(zset)
        hits == {i \in 1..Len(all) : all[i].member.job_id = job_id}
    IN IF hits = {} THEN [zset |-> zset, out |-> <<FALSE>>]
       ELSE LET first == CHOOSE i \in hits : \A k \in hits : i <= k
            IN [zset |-> zset \ {all[first]}, out |-> <<TRUE>>]

InitPair ==
    /\ pair_heap = <<>>
    /\ pair_counter = 0
    /\ pair_zset = {}
    /\ pair_rcounter = 0
    /\ pair_last = [op |-> "init", mem |-> <<>>, redis |-> <<>>]

PairOthers == <<coreVars, providerVars, jobStoreVars, redisQueueVars, codecVars, batcherVars, lateVars>>

pair_enqueue(job) ==
    /\ pair_rcounter < MaxCounter
    /\ LET m == MemEnqueue(pair_heap, pair_counter, job)
           r == RedisEnqueue(pair_zset, pair_rcounter, job)
       IN /\ pair_heap' = m.heap /\ pair_counter' = m.counter
          /\ pair_zset' = r.zset /\ pair_rcounter' = r.counter
          /\ pair_last' = [op |-> "enqueue", mem |-> m.out, redis |-> r.out]
    /\ UNCHANGED PairOthers

pair_dequeue ==
    /\ LET m == MemDequeue(pair_heap)
           r == RedisDequeue(pair_zset)
       IN /\ pair_heap' = m.heap /\ pair_zset' = r.zset
          /\ pair_last' = [op |-> "dequeue", mem |-> m.out, redis |-> r.out]
    /\ UNCHANGED <<pair_counter, pair_rcounter>>
    /\ UNCHANGED PairOthers

pair_peek ==
    /\ pair_last' = [op |-> "peek", mem |-> MemPeek(pair_heap),
                     redis |-> RedisPeek(pair_zset)]
    /\ UNCHANGED <<pair_heap, pair_counter, pair_zset, pair_rcounter>>
    /\ UNCHANGED PairOthers

pair_size ==
    /\ pair_last' = [op |-> "size", mem |-> <<Len(pair_heap)>>,
                     redis |-> <<Cardinality(pair_zset)>>]
    /\ UNCHANGED <<pair_heap, pair_counter, pair_zset, pair_rcounter>>
    /\ UNCHANGED PairOthers

pair_remove(job_id) ==
    /\ LET m == MemRemove(pair_heap, job_id)
           r == RedisRemove(pair_zset, job_id)
       IN /\ pair_heap' = m.heap /\ pair_zset' = r.zset
          /\ pair_last' = [op |-> "remove", mem |-> m.out, redis |-> r.out]
    /\ UNCHANGED <<pair_counter, pair_rcounter>>
    /\ UNCHANGED PairOthers

NextPair ==
    \/ \E job \in QueueJobs : pair_enqueue(job)
    \/ pair_dequeue
    \/ pair_peek
    \/ pair_size
    \/ \E job_id \in JobIds : pair_remove(job_id)

(***************************************************************************)
(* jobs/models.py: Job.to_dict and Job.from_dict.  An enum member is the   *)
(* pair <<class, value>>, a datetime is an integer, its ISO text is        *)
(* [iso |-> t], and an Optional field is <<>> for None or <<x>>.           *)
(***************************************************************************)
JobTypes == {"inference", "embedding", "search"}
CodecTimes == {1, 2}
ProviderTimeouts == {30, 45}        \* Job.provider_timeout_seconds: default, custom
Enum(cls, value) == <<cls, value>>
EnumValue(member) == member[2]
isoformat(t) == [iso |-> t]
fromisoformat(text) == text.iso
OptIso(field) == IF field # <<>> THEN <<isoformat(field[1])>> ELSE <<>>

\* the Job objects the round trip is applied to
CodecJobs ==
    [job_id : {1}, tenant_id : {"t1"}, idempotency_key : {<<>>, <<"k1">>},
     job_type : {Enum("JobType", v) : v \in JobTypes},
     payload : {<<>>}, target_provider : {<<>>},
     priority : {Enum("Priority", v) : v \in Priorities},
     webhook_url : {<<>>},
     status : {Enum("JobStatus", v) : v \in JobStatuses},
     created_at : {<<t>> : t \in CodecTimes},
     queued_at : {<<>>, <<1>>}, started_at : {<<>>},
     completed_at : {<<>>, <<2>>},
     attempt_count : AttemptCounts, max_attempts : {3},
     timeout_seconds : {60}, provider_timeout_seconds : ProviderTimeouts,
     result : {<<>>, <<1>>}, error : {<<>>}, provider_used : {<<>>},
     request_id : {<<>>}]

to_dict(job) ==
    [job_id |-> job.job_id,
     tenant_id |-> job.tenant_id,
     idempotency_key |-> job.idempotency_key,
     job_type |-> EnumValue(job.job_type),
     payload |-> job.payload,
     target_provider |-> job.target_provider,
     priority |-> EnumValue(job.priority),
     webhook_url |-> job.webhook_url,
     status |-> EnumValue(job.status),
     created_at |-> OptIso(job.created_at),
     queued_at |-> OptIso(job.queued_at),
     started_at |-> OptIso(job.started_at),
     completed_at |-> OptIso(job.completed_at),
     attempt_count |-> job.attempt_count,
     max_attempts |-> job.max_attempts,
     timeout_seconds |-> job.timeout_seconds,
     result |-> job.result,
     error |-> job.error,
     provider_used |-> job.provider_used,
     request_id |-> job.request_id]

\* the dataclass defaults of the fields from_dict does not pass to cls(...)
DefaultProviderTimeout == 30

\* `if data.get(name): job.name = datetime.fromisoformat(data[name])`
ParsedOr(field, default) ==
    IF field # <<>> THEN <<fromisoformat(field[1])>> ELSE default

\* from_dict(data) called when the clock reads utcnow
from_dict(data, utcnow) ==
    [job_id |-> data.job_id,
     tenant_id |-> data.tenant_id,
     idempotency_key |-> data.idempotency_key,
     job_type |-> Enum("JobType", data.job_type),
     payload |-> data.payload,
     target_provider |-> data.target_provider,
     priority |-> Enum("Priority", data.priority),
     webhook_url |-> data.webhook_url,
     status |-> Enum("JobStatus", data.status),
     created_at |-> ParsedOr(data.created_at, <<utcnow>>),
     queued_at |-> ParsedOr(data.queued_at, <<>>),
     started_at |-> ParsedOr(data.started_at, <<>>),
     completed_at |-> ParsedOr(data.completed_at, <<>>),
     attempt_count |-> data.attempt_count,
     max_attempts |-> data.max_attempts,
     timeout_seconds |-> data.timeout_seconds,
     provider_timeout_seconds |-> DefaultProviderTimeout,
     result |-> data.result,
     error |-> data.error,
     provider_used |-> data.provider_used,
     request_id |-> data.request_id]

InitCodec ==
    /\ codec_job = CHOOSE job \in CodecJobs : TRUE
    /\ codec_dict = <<>>
    /\ codec_back = <<>>

InitAnyCodec ==
    /\ codec_job \in CodecJobs
    /\ codec_dict = <<>>
    /\ codec_back = <<>>

CodecOthers == <<coreVars, providerVars, jobStoreVars, redisQueueVars, pairVars, batcherVars, lateVars>>

job_to_dict ==
    /\ codec_dict = <<>>
    /\ codec_dict' = <<to_dict(codec_job)>>
    /\ UNCHANGED <<codec_job, codec_back>>
    /\ UNCHANGED CodecOthers

job_from_dict ==
    /\ codec_dict # <<>>
    /\ codec_back = <<>>
    /\ \E utcnow \in CodecTimes : codec_back' = <<from_dict(codec_dict[1], utcnow)>>
    /\ UNCHANGED <<codec_job, codec_dict>>
    /\ UNCHANGED CodecOthers

NextCodec == job_to_dict \/ job_from_dict

(***************************************************************************)
(* jobs/batcher.py: Batcher.  Coroutines run on one event loop and none    *)
(* of the lock-protected sections suspends, so add_job, the body of a      *)
(* timer after its sleep, and force_flush_all are each one step.  A timer  *)
(* is a task [id, key, deadline, cancelled]; a cancelled task wakes with   *)
(* CancelledError.  The loop runs a due timer before the clock moves on.   *)
(***************************************************************************)
BatchJobIds == 1..BatchJobCount
BatchTargets == {<<>>, <<"deepseek">>}      \* Job.target_provider: None or a name
BatchJobTypes == {"inference"}
BatchJobs == [job_id : BatchJobIds, target_provider : BatchTargets,
              job_type : BatchJobTypes]

\* a key that drops the target provider
BatchKeyIgnoresTarget(job) == <<"default", job.job_type>>
\* provider = job.target_provider or "default"; batch_key = (provider, job_type)
BatchKey(job) ==
    <<IF job.target_provider # <<>> THEN job.target_provider[1] ELSE "default",
      job.job_type>>
BatchKeys == {BatchKey(job) : job \in BatchJobs}
NoTimer == 0

InitBatcher(on) ==
    /\ bt_enabled = on
    /\ bt_batches = [key \in BatchKeys |-> <<>>]
    /\ bt_timers = [key \in BatchKeys |-> NoTimer]
    /\ bt_tasks = {}
    /\ bt_delivered = <<>>
    /\ bt_accepted = {}
    /\ bt_submitted = {}
    /\ bt_now = 0
    /\ bt_next_id = 1

\* `if batch.size() >= self.max_batch_size`
BatchFullStrict(size) == size > max_batch_size
BatchFull(size) == size >= max_batch_size

\* _flush_batch(batch_key) on the state [batches, timers, tasks, delivered]
FlushKeepsBatch(st, key) ==
    IF st.batches[key] = <<>> THEN st
    ELSE [batches |-> st.batches,
          timers |-> [st.timers EXCEPT ![key] = NoTimer],
          tasks |-> {IF task.id = st.timers[key] THEN [task EXCEPT !.cancelled = TRUE]
                     ELSE task : task \in st.tasks},
          delivered |-> IF st.batches[key][1].jobs # <<>>
                        THEN Append(st.delivered, st.batches[key][1])
                        ELSE st.delivered]
FlushBatch(st, key) ==
    IF st.batches[key] = <<>> THEN st
    ELSE [batches |-> [st.batches EXCEPT ![key] = <<>>],
          timers |-> [st.timers EXCEPT ![key] = NoTimer],
          tasks |-> {IF task.id = st.timers[key] THEN [task EXCEPT !.cancelled = TRUE]
                     ELSE task : task \in st.tasks},
          delivered |-> IF st.batches[key][1].jobs # <<>>
                        THEN Append(st.delivered, st.batches[key][1])
                        ELSE st.delivered]

BatcherState ==
    [batches |-> bt_batches, timers |-> bt_timers, tasks |-> bt_tasks,
     delivered |-> bt_delivered]

SetBatcherState(st) ==
    /\ bt_batches' = st.batches
    /\ bt_timers' = st.timers
    /\ bt_tasks' = st.tasks
    /\ bt_delivered' = st.delivered

BatchOthers == <<coreVars, providerVars, jobStoreVars, redisQueueVars, pairVars, codecVars, lateVars>>

\* add_job(job, flush_callback)
add_job(job) ==
    \* job identifiers are handed out in order of submission
    /\ job.job_id = Cardinality(bt_submitted) + 1
    /\ bt_submitted' = bt_submitted \cup {job.job_id}
    /\ IF ~bt_enabled
       THEN UNCHANGED <<bt_batches, bt_timers, bt_tasks, bt_delivered, bt_accepted,
                        bt_next_id>>
       ELSE LET key == BatchKey(job)
                fresh == bt_batches[key] = <<>>
                batch == IF fresh
                         THEN [id |-> bt_next_id, key |-> key, jobs |-> <<job>>,
                               created_at |-> bt_now]
                         ELSE [bt_batches[key][1] EXCEPT !.jobs = Append(@, job)]
                st == [batches |-> [bt_batches EXCEPT ![key] = <<batch>>],
                       timers |-> IF fresh THEN [bt_timers EXCEPT ![key] = bt_next_id]
                                  ELSE bt_timers,
                       tasks |-> IF fresh
                                 THEN bt_tasks \cup
                                      {[id |-> bt_next_id, key |-> key,
                                        deadline |-> bt_now + batch_window,
                                        cancelled |-> FALSE]}
                                 ELSE bt_tasks,
                       delivered |-> bt_delivered]
            IN /\ fresh => bt_now + batch_window <= MaxBatchTime
               /\ SetBatcherState(IF BatchFull(Len(batch.jobs))
                                  THEN FlushBatch(st, key) ELSE st)
               /\ bt_next_id' = IF fresh THEN bt_next_id + 1 ELSE bt_next_id
               /\ bt_accepted' = bt_accepted \cup {job.job_id}
    /\ UNCHANGED <<bt_enabled, bt_now>>
    /\ UNCHANGED BatchOthers

\* _batch_timer after its sleep: flush whatever batch the key holds now
batch_timer(task) ==
    /\ task \in bt_tasks
    /\ ~task.cancelled
    /\ bt_now >= task.deadline
    /\ LET st == FlushBatch(BatcherState, task.key)
       IN SetBatcherState([st EXCEPT !.tasks = {other \in @ : other.id # task.id}])
    /\ UNCHANGED <<bt_enabled, bt_accepted, bt_submitted, bt_now, bt_next_id>>
    /\ UNCHANGED BatchOthers

\* _batch_timer woken by cancel(): `except asyncio.CancelledError`
batch_timer_cancelled(task) ==
    /\ task \in bt_tasks
    /\ task.cancelled
    /\ bt_tasks' = bt_tasks \ {task}
    /\ UNCHANGED <<bt_enabled, bt_batches, bt_timers, bt_delivered, bt_accepted,
                   bt_submitted, bt_now, bt_next_id>>
    /\ UNCHANGED BatchOthers

\* a shutdown flush that stops after the oldest batch
FlushOldestOnly(st, keys) ==
    IF keys = {} THEN st
    ELSE LET key == CHOOSE one \in keys :
                       \A other \in keys : st.batches[one][1].id <= st.batches[other][1].id
         IN FlushBatch(st, key)
\* the keys of _batches in insertion order
RECURSIVE FlushAll(_, _)
FlushAll(st, keys) ==
    IF keys = {} THEN st
    ELSE LET key == CHOOSE one \in keys :
                       \A other \in keys : st.batches[one][1].id <= st.batches[other][1].id
         IN FlushAll(FlushBatch(st, key), keys \ {key})

\* force_flush_all(flush_callback)
force_flush_all ==
    /\ SetBatcherState(FlushAll(BatcherState,
                                {key \in BatchKeys : bt_batches[key] # <<>>}))
    /\ UNCHANGED <<bt_enabled, bt_accepted, bt_submitted, bt_now, bt_next_id>>
    /\ UNCHANGED BatchOthers

\* the clock advances when no timer is due
bt_tick ==
    /\ bt_now < MaxBatchTime
    /\ \A task \in bt_tasks : task.cancelled \/ bt_now < task.deadline
    /\ bt_now' = bt_now + 1
    /\ UNCHANGED <<bt_enabled, bt_batches, bt_timers, bt_tasks, bt_delivered,
                   bt_accepted, bt_submitted, bt_next_id>>
    /\ UNCHANGED BatchOthers

NextBatcher ==
    \/ \E job \in BatchJobs : add_job(job)
    \/ \E task \in bt_tasks : batch_timer(task)
    \/ \E task \in bt_tasks : batch_timer_cancelled(task)
    \/ force_flush_all
    \/ bt_tick

(***************************************************************************)
(* QuotaManager (jobs/quota.py): tenants created lazily with the limits of *)
(* the tier named by the call that creates them                            *)
(***************************************************************************)
ManagerTenants == {"tenant-a"}
Tiers == {"free", "basic", "trial"}      \* "trial" is not a key of tier_quotas
KnownTiers == {"free", "basic"}

\* quota.py:126-143 / 156-159  tier_quotas.get(tier, defaults)
TierConfig(tier) ==
    CASE tier = "free"  -> [daily |-> QUOTA_FREE_DAILY, rate |-> QUOTA_FREE_RATE]
      [] tier = "basic" -> [daily |-> QUOTA_BASIC_DAILY, rate |-> QUOTA_BASIC_RATE]
      [] OTHER          -> [daily |-> QUOTA_DEFAULT_DAILY,
                            rate |-> QUOTA_DEFAULT_RATE_PER_MINUTE]

\* TenantQuota.__init__
NewTenantQuota(tier, t) ==
    [daily_quota |-> TierConfig(tier).daily,
     rate_limit_per_minute |-> TierConfig(tier).rate,
     daily_usage |-> 0, last_reset |-> t, request_timestamps |-> <<>>]

InitManager ==
    /\ qm_tenants = <<>>
    /\ qm_locked = FALSE
    /\ qm_now = 0
    /\ qm_last = [op |-> "init", tenant |-> "", tier |-> "", reason |-> ""]

\* get_or_create_tenant: the dictionary afterwards
GetOrCreateTenant(tenants, tenant_id, tier, t) ==
    IF tenant_id \notin DOMAIN tenants
    THEN (tenant_id :> NewTenantQuota(tier, t)) @@ tenants
    ELSE tenants

ManagerOthers == <<coreVars, earlyVars, statusVars, contextVars, pipelineVars, cacheKeyVars, orchestratorVars, finalVars>>

qm_check_and_consume(tenant_id, tier) ==
    LET tenants == GetOrCreateTenant(qm_tenants, tenant_id, tier, qm_now)
        tenant == tenants[tenant_id]
        r == TenantCheck(tenant, qm_now, tenant.daily_quota, tenant.rate_limit_per_minute)
    IN /\ ~qm_locked
       /\ qm_tenants' = [tenants EXCEPT ![tenant_id] = r[2]]
       /\ qm_last' = [op |-> "check_and_consume", tenant |-> tenant_id,
                      tier |-> tier, reason |-> r[1]]
       /\ UNCHANGED <<qm_locked, qm_now>>
       /\ UNCHANGED ManagerOthers

\* update_tenant_tier: an unknown tier is refused; otherwise the tenant is
\* dropped under the manager's lock and get_or_create_tenant then waits for
\* that same lock, which is never released
qm_update_tenant_tier(tenant_id, new_tier) ==
    /\ IF new_tier \notin KnownTiers
       THEN /\ qm_last' = [op |-> "update_tenant_tier", tenant |-> tenant_id,
                           tier |-> new_tier, reason |-> "unknown_tier"]
            /\ UNCHANGED <<qm_tenants, qm_locked>>
       ELSE /\ ~qm_locked
            /\ qm_tenants' = [x \in DOMAIN qm_tenants \ {tenant_id} |-> qm_tenants[x]]
            /\ qm_locked' = TRUE
            /\ qm_last' = [op |-> "update_tenant_tier", tenant |-> tenant_id,
                           tier |-> new_tier, reason |-> "blocked"]
    /\ UNCHANGED qm_now
    /\ UNCHANGED ManagerOthers

qm_reset_tenant(tenant_id) ==
    /\ ~qm_locked
    /\ qm_tenants' = IF tenant_id \in DOMAIN qm_tenants
                     THEN [qm_tenants EXCEPT ![tenant_id] =
                              [@ EXCEPT !.daily_usage = 0, !.last_reset = qm_now,
                                        !.request_timestamps = <<>>]]
                     ELSE qm_tenants
    /\ qm_last' = [op |-> "reset_tenant", tenant |-> tenant_id, tier |-> "",
                   reason |-> ""]
    /\ UNCHANGED <<qm_locked, qm_now>>
    /\ UNCHANGED ManagerOthers

qm_tick ==
    /\ qm_now + ClockStep <= MaxManagerSteps * ClockStep
    /\ qm_now' = qm_now + ClockStep
    /\ qm_last' = [op |-> "tick", tenant |-> "", tier |-> "", reason |-> ""]
    /\ UNCHANGED <<qm_tenants, qm_locked>>
    /\ UNCHANGED ManagerOthers

NextManager ==
    \/ \E t \in ManagerTenants, tier \in Tiers : qm_check_and_consume(t, tier)
    \/ \E t \in ManagerTenants, tier \in Tiers : qm_update_tenant_tier(t, tier)
    \/ \E t \in ManagerTenants : qm_reset_tenant(t)
    \/ qm_tick

(***************************************************************************)
(* JobStorage.update_status (jobs/storage.py) called by several coroutines *)
(* for the same job                                                        *)
(***************************************************************************)
Writers == 1..StatusWriters
UpdateStatuses == {"running", "completed", "failed"}
UpdateErrors == {<<>>, <<"boom">>}       \* error=None, error="boom"

\* the job every caller updates, as it was saved at admission
StatusJob ==
    [job_id |-> 1, tenant_id |-> "t1", idempotency_key |-> <<>>,
     job_type |-> Enum("JobType", "inference"), payload |-> <<>>,
     target_provider |-> <<>>, priority |-> Enum("Priority", "normal"),
     webhook_url |-> <<>>, status |-> Enum("JobStatus", "pending"),
     created_at |-> <<0>>, queued_at |-> <<>>, started_at |-> <<>>,
     completed_at |-> <<>>, attempt_count |-> 0, max_attempts |-> 3,
     timeout_seconds |-> 60, provider_timeout_seconds |-> DefaultProviderTimeout,
     result |-> <<>>, error |-> <<>>, provider_used |-> <<>>, request_id |-> <<>>]

NoCall == [pc |-> "idle", status |-> "", error |-> <<>>, job |-> <<>>]

InitStatus(b) ==
    /\ su_backend = b
    /\ su_store = IF b = "redis" THEN to_dict(StatusJob) ELSE StatusJob
    /\ su_calls = [w \in Writers |-> NoCall]
    /\ su_now = 0

\* storage.py:197-201  the assignments update_status makes to the job it holds
UpdatedJob(job, status, error, utcnow) ==
    [job EXCEPT !.status = Enum("JobStatus", status),
                !.error = IF error # <<>> THEN error ELSE @,
                !.completed_at = IF status \in {"completed", "failed"}
                                 THEN <<utcnow>> ELSE @]

StatusOthers == <<coreVars, earlyVars, managerVars, contextVars, pipelineVars, cacheKeyVars, orchestratorVars, finalVars>>

\* memory backend: get_job and save_job take the uncontended lock and never
\* suspend, so the call runs from its first line to its last in one step on
\* the Job object the dictionary holds
su_update_status_memory(w, status, error) ==
    /\ su_backend = "memory"
    /\ su_calls[w].pc = "idle"
    /\ su_store' = UpdatedJob(su_store, status, error, su_now)
    /\ su_calls' = [su_calls EXCEPT ![w] =
                       [pc |-> "done", status |-> status, error |-> error,
                        job |-> <<>>]]
    /\ UNCHANGED <<su_backend, su_now>>
    /\ UNCHANGED StatusOthers

\* redis backend, up to the reply of GET: the caller holds its own copy
su_update_status_get(w, status, error) ==
    /\ su_backend = "redis"
    /\ su_calls[w].pc = "idle"
    /\ su_calls' = [su_calls EXCEPT ![w] =
                       [pc |-> "got", status |-> status, error |-> error,
                        job |-> <<from_dict(su_store, su_now)>>]]
    /\ UNCHANGED <<su_backend, su_store, su_now>>
    /\ UNCHANGED StatusOthers

\* redis backend, from the reply of GET to the reply of SETEX
su_update_status_save(w) ==
    /\ su_backend = "redis"
    /\ su_calls[w].pc = "got"
    /\ su_store' = to_dict(UpdatedJob(su_calls[w].job[1], su_calls[w].status,
                                      su_calls[w].error, su_now))
    /\ su_calls' = [su_calls EXCEPT ![w].pc = "done", ![w].job = <<>>]
    /\ UNCHANGED <<su_backend, su_now>>
    /\ UNCHANGED StatusOthers

su_tick ==
    /\ su_now < MaxStatusTime
    /\ su_now' = su_now + 1
    /\ UNCHANGED <<su_backend, su_store, su_calls>>
    /\ UNCHANGED StatusOthers

NextStatus ==
    \/ \E w \in Writers, status \in UpdateStatuses, error \in UpdateErrors :
          su_update_status_memory(w, status, error)
    \/ \E w \in Writers, status \in UpdateStatuses, error \in UpdateErrors :
          su_update_status_get(w, status, error)
    \/ \E w \in Writers : su_update_status_save(w)
    \/ su_tick

(***************************************************************************)
(* ContextBuilder.build_context (rag/context_builder.py).  A text is       *)
(* described by its length in characters, which is all the builder reads.  *)
(***************************************************************************)
chars_per_token == 4            \* RAG_CHARS_PER_TOKEN
SeparatorLen == 54              \* len("\n\n" + "=" * 50 + "\n\n")
MarkerLen == 29                 \* len("\n[... content truncated ...]\n")
DocTagLen == 12                 \* len("[Document i]") for i < 10
MetadataLen == 39               \* "Title: \nSource: \nRelevance Score: 0.950"

ContentLens == {3, 7, 19}       \* len(doc.content)
TokenBudgets == {0, 5, 9, 16}   \* max_tokens; 0 stands for None

EmptyWindow ==
    [built |-> FALSE, documents |-> <<>>, parts |-> <<>>, marked |-> FALSE,
     token_count |-> 0, truncated |-> FALSE]

InitContext ==
    /\ cb_documents = <<>>
    /\ cb_max_tokens = 0
    /\ cb_include_metadata = TRUE
    /\ cb_window = EmptyWindow

InitAnyDocuments ==
    /\ cb_documents \in UNION {[1..n -> ContentLens] : n \in 0..MaxDocuments}
    /\ cb_max_tokens \in TokenBudgets
    /\ cb_include_metadata \in BOOLEAN
    /\ cb_window = EmptyWindow

\* int(len(text) / self.chars_per_token)
estimate_tokens(len) == len \div chars_per_token

\* len(_format_document(doc, i, include_metadata)): the parts joined by "\n",
\* for a document whose metadata lines take metadata_len characters
FormatLenWith(content_len, metadata_len, include_metadata) ==
    IF include_metadata
    THEN DocTagLen + 1 + metadata_len + 1 + 0 + 1 + content_len
    ELSE DocTagLen + 1 + content_len

\* a document with empty title and source and no optional metadata
FormatLen(content_len, include_metadata) ==
    FormatLenWith(content_len, MetadataLen, include_metadata)

\* len(text[:stop]) of a text of length len
SliceLen(len, stop) ==
    IF stop >= 0 THEN (IF stop < len THEN stop ELSE len)
    ELSE (IF len + stop > 0 THEN len + stop ELSE 0)

\* _truncate_document: <<length of the text returned, marker appended>>
TruncateDocument(len, max_tokens) ==
    LET max_chars == max_tokens * chars_per_token
    IN IF len <= max_chars THEN <<len, FALSE>>
       ELSE <<SliceLen(len, max_chars - MarkerLen) + MarkerLen, TRUE>>

\* the loop of build_context from document i on; texts[i] is the length of
\* the formatted document i
RECURSIVE BuildFrom(_, _, _, _)
BuildFrom(w, texts, i, max_tokens) ==
    IF i > Len(texts) THEN w
    ELSE LET doc_len == texts[i]
             doc_tokens == estimate_tokens(doc_len)
         IN IF w.token_count + doc_tokens > max_tokens
            THEN IF w.parts = <<>>
                 THEN LET t == TruncateDocument(doc_len, max_tokens)
                      IN [w EXCEPT !.parts = <<t[1]>>, !.marked = t[2],
                                   !.token_count = max_tokens, !.truncated = TRUE]
                 ELSE w
            ELSE BuildFrom([w EXCEPT !.documents = Append(@, i),
                                     !.parts = Append(@, doc_len),
                                     !.token_count = @ + doc_tokens],
                           texts, i + 1, max_tokens)

\* max_tokens or self.max_context_tokens
EffectiveMaxTokens(max_tokens) ==
    IF max_tokens # 0 THEN max_tokens ELSE max_context_tokens

BuildWindow(texts, max_tokens) ==
    [BuildFrom(EmptyWindow, texts, 1, EffectiveMaxTokens(max_tokens))
       EXCEPT !.built = TRUE]

BuildContext(docs, max_tokens, include_metadata) ==
    BuildWindow([i \in 1..Len(docs) |-> FormatLen(docs[i], include_metadata)],
                max_tokens)

RECURSIVE SumLens(_)
SumLens(parts) == IF parts = <<>> THEN 0 ELSE parts[1] + SumLens(Tail(parts))

\* len(self.doc_separator.join(formatted_parts))
FormattedContextLen(w) ==
    IF w.parts = <<>> THEN 0
    ELSE SumLens(w.parts) + SeparatorLen * (Len(w.parts) - 1)

ContextOthers == <<coreVars, earlyVars, managerVars, statusVars, pipelineVars, cacheKeyVars, orchestratorVars, finalVars>>

build_context ==
    /\ ~cb_window.built
    /\ cb_window' = BuildContext(cb_documents, cb_max_tokens, cb_include_metadata)
    /\ UNCHANGED <<cb_documents, cb_max_tokens, cb_include_metadata>>
    /\ UNCHANGED ContextOthers

NextContext == build_context

(***************************************************************************)
(* RAGPipeline.process (rag/rag_pipeline.py).  The answer is described by  *)
(* the document numbers it mentions, the reply of the follow-up call by    *)
(* what _parse_follow_ups reads of it.                                     *)
(***************************************************************************)
MockCount == 2                          \* _get_mock_documents returns two documents
MockContentLens(query_len) == <<139 + query_len, 75 + query_len>>
MockMetadataLens == <<130, 126>>        \* title, source, url, date/section, score lines

QueryBudgets == {50, 100, 3000}         \* RAGQuery.max_context_tokens
QueryLens == {10}                       \* len(query.query)
RagQueries ==
    [query_len : QueryLens, max_context_tokens : QueryBudgets,
     include_metadata : BOOLEAN]

\* the answer text: the i with "[i]" in answer, the i with "Document i" in answer
Answers == [brackets : SUBSET (1..MaxMarker), mentions : {{}, {2}}]

\* a follow-up question: its text ends in "?", does not, or is empty
QuestionTexts == {"good", "plain", "empty"}
\* an item of the JSON array: a question, or an object without "question"
ItemKinds == QuestionTexts \cup {"nokey"}
\* the reply of the follow-up call: an exception, a text holding a JSON array
\* between "[" and "]", or any other text; lines counts the lines of the text
\* that end in "?" and are longer than 10 characters
FollowUpReplies ==
    {[kind |-> "failure", items |-> <<>>, lines |-> 0]}
    \cup [kind : {"json"},
          items : UNION {[1..n -> ItemKinds] : n \in 0..MaxFollowUpItems},
          lines : 0..MaxQuestionLines]
    \cup [kind : {"text"}, items : {<<>>}, lines : 0..MaxQuestionLines]

NoResponse == [completed |-> FALSE, answer |-> <<>>, citations |-> <<>>,
               follow_up_questions |-> <<>>,
               reply |-> [kind |-> "none", items |-> <<>>, lines |-> 0]]

InitPipeline ==
    /\ rp_pc = "idle"
    /\ rp_query = [query_len |-> 0, max_context_tokens |-> 0, include_metadata |-> TRUE]
    /\ rp_window = EmptyWindow
    /\ rp_answer = [brackets |-> {}, mentions |-> {}]
    /\ rp_response = NoResponse
    /\ rp_calls = 0

\* _retrieve_documents and build_context of process
RetrievedTexts(query) ==
    [i \in 1..MockCount |->
        FormatLenWith(MockContentLens(query.query_len)[i], MockMetadataLens[i],
                      query.include_metadata)]

\* _is_document_cited
IsDocumentCited(answer, doc_number) ==
    doc_number \in answer.brackets \/ doc_number \in answer.mentions

RECURSIVE CitedFrom(_, _, _)
CitedFrom(answer, documents, i) ==
    IF i > Len(documents) THEN <<>>
    ELSE (IF IsDocumentCited(answer, i) THEN <<documents[i]>> ELSE <<>>)
         \o CitedFrom(answer, documents, i + 1)

\* _extract_citations: the documents cited, by their number
ExtractCitations(answer, documents) ==
    LET citations == CitedFrom(answer, documents, 1)
    IN IF citations = <<>> /\ documents # <<>>
       THEN SubSeq(documents, 1, IF Len(documents) < 3 THEN Len(documents) ELSE 3)
       ELSE citations

\* _extract_questions_from_text: the first two interrogative lines
ExtractQuestionsFromText(lines) ==
    [i \in 1..(IF lines < 2 THEN lines ELSE 2) |-> "good"]

\* _parse_follow_ups
ParseFollowUps(reply) ==
    LET first == SubSeq(reply.items, 1,
                        IF Len(reply.items) < 2 THEN Len(reply.items) ELSE 2)
    IN IF reply.kind = "json" /\ \A i \in 1..Len(first) : first[i] # "nokey"
       THEN first
       ELSE ExtractQuestionsFromText(reply.lines)

\* _get_default_follow_ups
DefaultFollowUps == <<"good", "good">>

\* a follow-up step without the except branch's defaults
GenerateFollowUpsNoDefault(reply) == ParseFollowUps(reply)

\* _generate_follow_ups, given what the inference call produced
GenerateFollowUps(reply) ==
    IF reply.kind = "failure" THEN DefaultFollowUps ELSE ParseFollowUps(reply)

PipelineOthers == <<coreVars, earlyVars, managerVars, statusVars, contextVars, cacheKeyVars, orchestratorVars, finalVars>>

\* process up to the first inference call
rp_process(query) ==
    /\ rp_pc = "idle"
    /\ rp_query' = query
    /\ rp_window' = BuildWindow(RetrievedTexts(query), query.max_context_tokens)
    /\ rp_calls' = rp_calls + 1
    /\ rp_pc' = "answer"
    /\ UNCHANGED <<rp_answer, rp_response>>
    /\ UNCHANGED PipelineOthers

\* _retrieve_documents (or a later step before the first inference call)
\* raises: process logs and re-raises
rp_retrieval_fails(query) ==
    /\ rp_pc = "idle"
    /\ rp_query' = query
    /\ rp_pc' = "raised"
    /\ UNCHANGED <<rp_window, rp_answer, rp_response, rp_calls>>
    /\ UNCHANGED PipelineOthers

\* the first inference call raises: process raises
rp_answer_fails ==
    /\ rp_pc = "answer"
    /\ rp_pc' = "raised"
    /\ UNCHANGED <<rp_query, rp_window, rp_answer, rp_response, rp_calls>>
    /\ UNCHANGED PipelineOthers

\* the answer arrives: citations are extracted and the follow-up call is made
rp_answered(answer) ==
    /\ rp_pc = "answer"
    /\ rp_answer' = answer
    /\ rp_calls' = rp_calls + 1
    /\ rp_pc' = "follow_up"
    /\ UNCHANGED <<rp_query, rp_window, rp_response>>
    /\ UNCHANGED PipelineOthers

\* the follow-up call returns or raises: the response is built
rp_respond(reply) ==
    /\ rp_pc = "follow_up"
    /\ rp_response' = [completed |-> TRUE,
                       answer |-> <<rp_answer>>,
                       citations |-> ExtractCitations(rp_answer, rp_window.documents),
                       follow_up_questions |-> GenerateFollowUps(reply),
                       reply |-> reply]
    /\ rp_pc' = "done"
    /\ UNCHANGED <<rp_query, rp_window, rp_answer, rp_calls>>
    /\ UNCHANGED PipelineOthers

NextPipeline ==
    \/ \E query \in RagQueries : rp_process(query)
    \/ \E query \in RagQueries : rp_retrieval_fails(query)
    \/ rp_answer_fails
    \/ \E answer \in Answers : rp_answered(answer)
    \/ \E reply \in FollowUpReplies : rp_respond(reply)

(***************************************************************************)
(* RAGRequest.generate_cache_key (orchestration/models.py)                 *)
(***************************************************************************)
NoneValue == <<"None">>                  \* Optional[str] = None
RequestQueries ==
    {<<>>, <<"a">>, <<"A">>, <<" ", "a">>, <<"A", " ">>, <<"a", "A">>, <<"a", " ", "a">>}
CitationStyles == {"inline_numbers", "end_list"}
ResponseStyles == {"terse", "balanced"}
RagRequests ==
    [tenant_id : {<<"t">>, <<"u">>},
     query : RequestQueries,
     template_id : {NoneValue, <<>>, <<"x">>},
     top_k : {3, 5},
     citation_style : CitationStyles,
     response_style : ResponseStyles,
     dry_run : BOOLEAN]

DefaultRequest ==
    [tenant_id |-> <<"t">>, query |-> <<>>, template_id |-> NoneValue, top_k |-> 5,
     citation_style |-> "inline_numbers", response_style |-> "balanced",
     dry_run |-> FALSE]

InitCacheKey ==
    /\ ck_request = DefaultRequest
    /\ ck_keys = <<>>

InitAnyRequest ==
    /\ ck_request \in RagRequests
    /\ ck_keys = <<>>

\* requests whose strings may hold the character that joins the key parts
SeparatorTenants == {<<"a">>, <<"a", "|", "b">>, <<"a", "|">>}
SeparatorQueries == {<<"c">>, <<"b", "|", "c">>, <<"b">>, <<"|", "b">>}
SeparatorTemplates == {NoneValue, <<"x">>, <<"c", "|", "x">>}
SeparatorRequests ==
    [tenant_id : SeparatorTenants, query : SeparatorQueries,
     template_id : SeparatorTemplates, top_k : {5},
     citation_style : {"inline_numbers"}, response_style : {"balanced"},
     dry_run : {FALSE}]

InitSeparatorRequest ==
    /\ ck_request \in SeparatorRequests
    /\ ck_keys = <<>>

\* str.strip()
RECURSIVE LStrip(_)
LStrip(str) == IF str # <<>> /\ str[1] = " " THEN LStrip(Tail(str)) ELSE str

RECURSIVE RStrip(_)
RStrip(str) ==
    IF str # <<>> /\ str[Len(str)] = " "
    THEN RStrip(SubSeq(str, 1, Len(str) - 1)) ELSE str

Strip(str) == RStrip(LStrip(str))

\* str(n) for 0 <= n < 100
Digits == <<"0", "1", "2", "3", "4", "5", "6", "7", "8", "9">>
Str(n) == IF n < 10 THEN <<Digits[n + 1]>>
          ELSE <<Digits[(n \div 10) + 1], Digits[(n % 10) + 1]>>

\* "|".join(parts)
RECURSIVE Join(_)
Join(parts) ==
    IF Len(parts) = 0 THEN <<>>
    ELSE IF Len(parts) = 1 THEN parts[1]
    ELSE parts[1] \o <<"|">> \o Join(Tail(parts))

\* Enum.value of a str-valued enum member, as characters
StyleValue(style) == <<style>>

\* hashlib.sha256(text).hexdigest(): equal digests for equal texts only
Sha256Hex(text) == <<"sha256", text>>

\* self.query.lower().strip()
NormalizedQuery(request) == Strip(Lower(request.query))

\* self.template_id or "default"
TemplateOrDefault(request) ==
    IF request.template_id = NoneValue \/ request.template_id = <<>>
    THEN <<"d", "e", "f", "a", "u", "l", "t">>
    ELSE request.template_id

\* a key that also reads the dry-run flag
KeyPartsWithDryRun(request) ==
    <<request.tenant_id, NormalizedQuery(request), TemplateOrDefault(request),
      Str(request.top_k), StyleValue(request.citation_style),
      StyleValue(request.response_style),
      IF request.dry_run THEN <<"1">> ELSE <<"0">>>>

KeyParts(request) ==
    <<request.tenant_id, NormalizedQuery(request), TemplateOrDefault(request),
      Str(request.top_k), StyleValue(request.citation_style),
      StyleValue(request.response_style)>>

generate_cache_key(request) == Sha256Hex(Join(KeyParts(request)))

CacheKeyOthers == <<coreVars, earlyVars, managerVars, statusVars, contextVars, pipelineVars, orchestratorVars, finalVars>>

ck_generate_cache_key ==
    /\ Len(ck_keys) < MaxKeyCalls
    /\ ck_keys' = Append(ck_keys, generate_cache_key(ck_request))
    /\ UNCHANGED ck_request
    /\ UNCHANGED CacheKeyOthers

NextCacheKey == ck_generate_cache_key

(***************************************************************************)
(* The RAG orchestrator (orchestration/rag_orchestrator.py and             *)
(* cache_manager.py, not part of the sources at hand): its ten stages as   *)
(* section 4.11 of the specification lists them, over the RAGRequest and   *)
(* RAGResult declared in orchestration/models.py                           *)
(***************************************************************************)
OrchestratedRequests ==
    {r \in RagRequests :
        /\ r.tenant_id = <<"t">> /\ r.template_id = NoneValue
        /\ r.citation_style = "inline_numbers" /\ r.response_style = "balanced"
        /\ r.query \in {<<"a">>, <<"A">>, <<"a", "A">>}}

\* RAGResult: which of its parts are filled in
NoRagResult == [kind |-> "none", cache_hit |-> FALSE, generated_prompt |-> FALSE,
             selected_snippets |-> FALSE, answer |-> FALSE]
DryRunResult == [kind |-> "dry_run", cache_hit |-> FALSE, generated_prompt |-> TRUE,
                 selected_snippets |-> TRUE, answer |-> FALSE]
FullResult == [kind |-> "full", cache_hit |-> FALSE, generated_prompt |-> FALSE,
               selected_snippets |-> FALSE, answer |-> TRUE]
FailedResult == [kind |-> "failed", cache_hit |-> FALSE, generated_prompt |-> FALSE,
                 selected_snippets |-> FALSE, answer |-> FALSE]
\* stage 2: the stored result with cache_hit = true
CachedResult == [FullResult EXCEPT !.kind = "cached", !.cache_hit = TRUE]

InitOrchestrator ==
    /\ ro_pc = "idle"
    /\ ro_request = DefaultRequest
    /\ ro_cache = {}
    /\ ro_result = NoRagResult
    /\ ro_calls = 0
    /\ ro_writes = 0
    /\ ro_served = 0

\* a request that never leaves stage 6
DryRunNeverShortCircuits(request) == FALSE

\* dry-run mode short-circuits at stage 6
DryRunShortCircuits(request) == request.dry_run

OrchestratorOthers ==
    <<coreVars, earlyVars, managerVars, statusVars, contextVars, pipelineVars,
      cacheKeyVars, finalVars>>

\* stages 1 to 6, and the submission of the inference job of stage 7
ro_submit(request) ==
    /\ ro_pc = "idle"
    /\ ro_served < MaxOrchestrated
    /\ ro_served' = ro_served + 1
    /\ ro_request' = request
    /\ ro_writes' = 0
    /\ UNCHANGED ro_cache
    /\ IF generate_cache_key(request) \in ro_cache
       THEN /\ ro_result' = CachedResult
            /\ ro_calls' = 0
            /\ UNCHANGED ro_pc
       ELSE IF DryRunShortCircuits(request)
       THEN /\ ro_result' = DryRunResult
            /\ ro_calls' = 0
            /\ UNCHANGED ro_pc
       ELSE /\ ro_result' = NoRagResult
            /\ ro_calls' = 1
            /\ ro_pc' = "inference"
    /\ UNCHANGED OrchestratorOthers

\* stage 7 fails: a dispatch-core failure is terminal to the request
ro_inference_failed ==
    /\ ro_pc = "inference"
    /\ ro_result' = FailedResult
    /\ ro_pc' = "idle"
    /\ UNCHANGED <<ro_request, ro_cache, ro_calls, ro_writes, ro_served>>
    /\ UNCHANGED OrchestratorOthers

\* stages 7 and 8, and the second inference call of stage 9
ro_answered ==
    /\ ro_pc = "inference"
    /\ ro_calls' = ro_calls + 1
    /\ ro_pc' = "follow_up"
    /\ UNCHANGED <<ro_request, ro_cache, ro_result, ro_writes, ro_served>>
    /\ UNCHANGED OrchestratorOthers

\* stages 9 and 10: the result is assembled and the cache populated
ro_assembled ==
    /\ ro_pc = "follow_up"
    /\ ro_result' = FullResult
    /\ ro_cache' = ro_cache \cup {generate_cache_key(ro_request)}
    /\ ro_writes' = ro_writes + 1
    /\ ro_pc' = "idle"
    /\ UNCHANGED <<ro_request, ro_calls, ro_served>>
    /\ UNCHANGED OrchestratorOthers

NextOrchestrator ==
    \/ \E request \in OrchestratedRequests : ro_submit(request)
    \/ ro_inference_failed
    \/ ro_answered
    \/ ro_assembled

(***************************************************************************)
(* CircuitBreaker (jobs/circuit_breaker.py) constructed with any positive  *)
(* thresholds and used as its callers use it: a caller asks is_available,  *)
(* makes the call only when admitted, and reports the outcome with         *)
(* record_success or record_failure.                                       *)
(***************************************************************************)
BreakerConfigs ==
    [failure_threshold : 1..MaxThreshold, success_threshold : 1..MaxThreshold,
     half_open_max_calls : 1..MaxThreshold, timeout_seconds : {timeout_seconds}]

DefaultBreakerConfig ==
    [failure_threshold |-> failure_threshold, success_threshold |-> success_threshold,
     half_open_max_calls |-> half_open_max_calls, timeout_seconds |-> timeout_seconds]

\* CircuitBreaker.__init__
InitConfigured(cfg) ==
    /\ hb_config = cfg
    /\ hb_breaker = [state |-> "closed", failure_count |-> 0, success_count |-> 0,
                     last_failure_time |-> NoTime, opened_at |-> NoTime,
                     half_open_calls |-> 0]
    /\ hb_outstanding = 0
    /\ hb_now = 0

InitAnyConfig == \E cfg \in BreakerConfigs : InitConfigured(cfg)

\* is_available: the pair <<returned value, breaker afterwards>>
IsAvailableWith(b, t, cfg) ==
    IF b.state = "closed" THEN <<TRUE, b>>
    ELSE IF b.state = "open"
    THEN IF b.opened_at # NoTime /\ t - b.opened_at >= cfg.timeout_seconds
         THEN <<TRUE, [b EXCEPT !.state = "half_open", !.half_open_calls = 0]>>
         ELSE <<FALSE, b>>
    ELSE IF b.state = "half_open"
    THEN IF b.half_open_calls < cfg.half_open_max_calls THEN <<TRUE, b>>
         ELSE <<FALSE, b>>
    ELSE <<FALSE, b>>

\* record_success: the breaker afterwards
RecordSuccessWith(b, cfg) ==
    LET b1 == [b EXCEPT !.success_count = b.success_count + 1]
    IN IF b1.state = "half_open"
       THEN LET b2 == [b1 EXCEPT !.half_open_calls = b1.half_open_calls + 1]
            IN IF b2.success_count >= cfg.success_threshold
               THEN [b2 EXCEPT !.state = "closed", !.failure_count = 0,
                               !.success_count = 0, !.half_open_calls = 0]
               ELSE b2
       ELSE IF b1.state = "closed"
       THEN [b1 EXCEPT !.failure_count = 0]
       ELSE b1

\* record_failure: the breaker afterwards
RecordFailureWith(b, t, cfg) ==
    LET b1 == [b EXCEPT !.failure_count = b.failure_count + 1,
                        !.last_failure_time = t]
    IN IF b1.state = "closed"
       THEN IF b1.failure_count >= cfg.failure_threshold
            THEN [b1 EXCEPT !.state = "open", !.opened_at = t, !.success_count = 0]
            ELSE b1
       ELSE IF b1.state = "half_open"
       THEN [b1 EXCEPT !.state = "open", !.opened_at = t, !.success_count = 0,
                       !.half_open_calls = 0]
       ELSE b1

ConfiguredOthers == <<coreVars, earlyVars, midVars, dlqVars, retentionVars, lifetimeVars>>

\* a caller asks for admission and, when admitted, starts its call
hb_is_available ==
    LET r == IsAvailableWith(hb_breaker, hb_now, hb_config)
    IN /\ hb_outstanding < MaxOutstanding
       /\ hb_breaker' = r[2]
       /\ hb_outstanding' = IF r[1] THEN hb_outstanding + 1 ELSE hb_outstanding
       /\ UNCHANGED <<hb_config, hb_now>>
       /\ UNCHANGED ConfiguredOthers

\* an admitted call returns and is reported
hb_record_success ==
    /\ hb_outstanding > 0
    /\ hb_breaker.success_count < hb_config.success_threshold + ExtraCount
    /\ hb_breaker' = RecordSuccessWith(hb_breaker, hb_config)
    /\ hb_outstanding' = hb_outstanding - 1
    /\ UNCHANGED <<hb_config, hb_now>>
    /\ UNCHANGED ConfiguredOthers

\* an admitted call fails and is reported
hb_record_failure ==
    /\ hb_outstanding > 0
    /\ hb_breaker.failure_count < hb_config.failure_threshold + ExtraCount
    /\ hb_breaker' = RecordFailureWith(hb_breaker, hb_now, hb_config)
    /\ hb_outstanding' = hb_outstanding - 1
    /\ UNCHANGED <<hb_config, hb_now>>
    /\ UNCHANGED ConfiguredOthers

hb_tick ==
    /\ hb_now < MaxBreakerClock
    /\ hb_now' = hb_now + 1
    /\ UNCHANGED <<hb_config, hb_breaker, hb_outstanding>>
    /\ UNCHANGED ConfiguredOthers

NextConfigured ==
    \/ hb_is_available
    \/ hb_record_success
    \/ hb_record_failure
    \/ hb_tick

(***************************************************************************)
(* The dead-letter store of JobStorage (jobs/storage.py): add_to_dlq,      *)
(* whose backend write may fail, and requeue_from_dlq called by several    *)
(* coroutines for the same job.  On the memory backend the store holds the *)
(* caller's Job object itself; on redis it holds the JSON text of the job  *)
(* and GET and DELETE are two awaits.                                      *)
(***************************************************************************)
Requeuers == 1..DlqCallers
DlqErrors == {<<"boom">>, <<"timeout">>}

\* a job whose attempts are used up
FailedJob ==
    [StatusJob EXCEPT !.status = Enum("JobStatus", "failed"), !.attempt_count = 3]

NoRequeue == [pc |-> "idle", data |-> <<>>, ret |-> <<>>]
NoDlqCall == [op |-> "init", ret |-> FALSE, before |-> FailedJob]

InitDlq(b) ==
    /\ dq_backend = b
    /\ dq_job = FailedJob
    /\ dq_dlq = <<>>
    /\ dq_calls = [p \in Requeuers |-> NoRequeue]
    /\ dq_added = 0
    /\ dq_last = NoDlqCall

InitAnyDlq == \E b \in Backends : InitDlq(b)

\* storage.py:133-134  job.status = DEAD_LETTER; job.error = error
MarkedDeadLetter(job, error) ==
    [job EXCEPT !.status = Enum("JobStatus", "dead_letter"), !.error = error]

\* storage.py:176-178 / 184-186  the job handed back
ResetForRequeue(job) ==
    [job EXCEPT !.status = Enum("JobStatus", "pending"), !.attempt_count = 0,
                !.error = <<>>]

DlqOthers == <<coreVars, earlyVars, midVars, configuredVars, retentionVars, lifetimeVars>>

\* add_to_dlq(job, error); written: the backend write went through
dq_add_to_dlq(error, written) ==
    /\ dq_added < MaxDeadLetters
    /\ dq_backend = "memory" => written
    /\ dq_job' = MarkedDeadLetter(dq_job, error)
    /\ dq_dlq' = IF ~written THEN dq_dlq
                 ELSE IF dq_backend = "redis" THEN <<to_dict(dq_job')>>
                 ELSE <<dq_job.job_id>>
    /\ dq_added' = IF written THEN dq_added + 1 ELSE dq_added
    /\ dq_last' = [op |-> "add_to_dlq", ret |-> written, before |-> dq_job]
    /\ UNCHANGED <<dq_backend, dq_calls>>
    /\ UNCHANGED DlqOthers

\* requeue_from_dlq on the memory backend: pop and reset under the lock
dq_requeue_memory(p) ==
    /\ dq_backend = "memory"
    /\ dq_calls[p].pc = "idle"
    /\ dq_dlq' = <<>>
    /\ IF dq_dlq = <<>>
       THEN /\ dq_calls' = [dq_calls EXCEPT ![p] = [NoRequeue EXCEPT !.pc = "done"]]
            /\ UNCHANGED dq_job
       ELSE /\ dq_job' = ResetForRequeue(dq_job)
            /\ dq_calls' = [dq_calls EXCEPT ![p] =
                               [pc |-> "done", data |-> <<>>, ret |-> <<dq_job'>>]]
    /\ dq_last' = [dq_last EXCEPT !.op = "requeue_from_dlq"]
    /\ UNCHANGED <<dq_backend, dq_added>>
    /\ UNCHANGED DlqOthers

\* requeue_from_dlq on redis, up to the reply of GET
dq_requeue_get(p) ==
    /\ dq_backend = "redis"
    /\ dq_calls[p].pc = "idle"
    /\ dq_calls' = [dq_calls EXCEPT ![p] =
                       IF dq_dlq = <<>> THEN [NoRequeue EXCEPT !.pc = "done"]
                       ELSE [pc |-> "got", data |-> dq_dlq, ret |-> <<>>]]
    /\ dq_last' = [dq_last EXCEPT !.op = "requeue_from_dlq"]
    /\ UNCHANGED <<dq_backend, dq_job, dq_dlq, dq_added>>
    /\ UNCHANGED DlqOthers

\* requeue_from_dlq on redis, from the reply of GET to the return
dq_requeue_delete(p) ==
    /\ dq_backend = "redis"
    /\ dq_calls[p].pc = "got"
    /\ dq_dlq' = <<>>
    /\ dq_calls' = [dq_calls EXCEPT ![p] =
                       [pc |-> "done", data |-> <<>>,
                        ret |-> <<ResetForRequeue(from_dict(dq_calls[p].data[1], 0))>>]]
    /\ dq_last' = [dq_last EXCEPT !.op = "requeue_from_dlq"]
    /\ UNCHANGED <<dq_backend, dq_job, dq_added>>
    /\ UNCHANGED DlqOthers

NextDlq ==
    \/ \E error \in DlqErrors, written \in BOOLEAN : dq_add_to_dlq(error, written)
    \/ \E p \in Requeuers : dq_requeue_memory(p)
    \/ \E p \in Requeuers : dq_requeue_get(p)
    \/ \E p \in Requeuers : dq_requeue_delete(p)

(***************************************************************************)
(* JobStorage on the memory backend (jobs/storage.py): save_job,           *)
(* check_idempotency, get_job and cleanup_old_jobs.  Time is counted in    *)
(* hours.                                                                  *)
(***************************************************************************)
RetainedJobIds == 1..RetentionJobCount
RetentionKeys == {<<>>, <<"k1">>, <<"k2">>}     \* Job.idempotency_key: None or a key
NoIdem == <<>>                                  \* dict.get found nothing

InitRetention ==
    /\ cl_jobs = [id \in RetainedJobIds |-> <<>>]
    /\ cl_results = [id \in RetainedJobIds |-> <<>>]
    /\ cl_idempotency = [key \in RetentionKeys \ {<<>>} |-> NoIdem]
    /\ cl_now = 0
    /\ cl_removed = {}

\* _get_job_memory: self._jobs.get(job_id)
GetJobMemory(jobs, job_id) == jobs[job_id]

\* check_idempotency on the memory backend: self._idempotency.get(key)
CheckIdempotencyMemory(idempotency, key) == idempotency[key]

\* storage.py:210-213  the job_ids cleanup_old_jobs collects
ToRemove(jobs, cutoff) ==
    {id \in DOMAIN jobs :
        /\ jobs[id] # <<>>
        /\ jobs[id][1].completed_at # <<>>
        /\ jobs[id][1].completed_at[1] < cutoff}

RetentionOthers == <<coreVars, earlyVars, midVars, configuredVars, dlqVars, lifetimeVars>>

\* save_job(job) -> _save_job_memory; a job keeps the idempotency key it was
\* created with
cl_save_job(id, key, completed) ==
    /\ cl_jobs[id] # <<>> => cl_jobs[id][1].idempotency_key = key
    /\ cl_jobs' = [cl_jobs EXCEPT ![id] =
                      <<[job_id |-> id, idempotency_key |-> key,
                         completed_at |-> IF completed THEN <<cl_now>> ELSE <<>>]>>]
    /\ cl_idempotency' = IF key # <<>> THEN [cl_idempotency EXCEPT ![key] = <<id>>]
                         ELSE cl_idempotency
    /\ UNCHANGED <<cl_results, cl_now, cl_removed>>
    /\ UNCHANGED RetentionOthers

\* save_result(result) on the memory backend
cl_save_result(id) ==
    /\ cl_jobs[id] # <<>>
    /\ cl_results' = [cl_results EXCEPT ![id] = <<id>>]
    /\ UNCHANGED <<cl_jobs, cl_idempotency, cl_now, cl_removed>>
    /\ UNCHANGED RetentionOthers

\* cleanup_old_jobs(hours)
cl_cleanup_old_jobs(hours) ==
    LET cutoff == cl_now - hours
        to_remove == ToRemove(cl_jobs, cutoff)
    IN /\ cl_jobs' = [id \in DOMAIN cl_jobs |->
                         IF id \in to_remove THEN <<>> ELSE cl_jobs[id]]
       /\ cl_results' = [id \in DOMAIN cl_results |->
                            IF id \in to_remove THEN <<>> ELSE cl_results[id]]
       /\ cl_removed' = cl_removed \cup to_remove
       /\ UNCHANGED <<cl_idempotency, cl_now>>
       /\ UNCHANGED RetentionOthers

cl_tick ==
    /\ cl_now < MaxRetentionClock
    /\ cl_now' = cl_now + 1
    /\ UNCHANGED <<cl_jobs, cl_results, cl_idempotency, cl_removed>>
    /\ UNCHANGED RetentionOthers

NextRetention ==
    \/ \E id \in RetainedJobIds, key \in RetentionKeys, completed \in BOOLEAN :
          cl_save_job(id, key, completed)
    \/ \E id \in RetainedJobIds : cl_save_result(id)
    \/ \E hours \in 1..MaxRetentionHours : cl_cleanup_old_jobs(hours)
    \/ cl_tick

(***************************************************************************)
(* A RedisQueue (jobs/queue_backend.py) over its lifetime: the counter     *)
(* key is never reset, so it counts every enqueue since the queue was      *)
(* first used.  One caller at a time.                                      *)
(***************************************************************************)
InitLifetime ==
    /\ lq_zset = {}
    /\ lq_counter = 0
    /\ lq_enqueued = 0

LifetimeOthers == <<coreVars, earlyVars, midVars, configuredVars, dlqVars, retentionVars>>

\* enqueue(job)
lq_enqueue(job) ==
    /\ lq_enqueued < MaxLifetimeEnqueues
    /\ lq_zset' = RedisEnqueue(lq_zset, lq_counter, job).zset
    /\ lq_counter' = RedisEnqueue(lq_zset, lq_counter, job).counter
    /\ lq_enqueued' = lq_enqueued + 1
    /\ UNCHANGED LifetimeOthers

\* dequeue()
lq_dequeue ==
    /\ lq_zset' = RedisDequeue(lq_zset).zset
    /\ UNCHANGED <<lq_counter, lq_enqueued>>
    /\ UNCHANGED LifetimeOthers

\* n times over: a high-priority job is enqueued and, having the lowest
\* score, is the job the next dequeue takes; the sorted set is as before and
\* the counter has moved on by n
lq_served(n) ==
    /\ lq_counter <= 2 * ScoreMultiplier - n
    /\ Cardinality(lq_zset) < max_size
    /\ \A e \in lq_zset : ~ScoreLe(e.score, Score("high", lq_counter + n))
    /\ lq_counter' = lq_counter + n
    /\ UNCHANGED <<lq_zset, lq_enqueued>>
    /\ UNCHANGED LifetimeOthers

NextLifetime ==
    \/ \E job \in QueueJobs : lq_enqueue(job)
    \/ lq_dequeue
    \/ \E n \in {ScoreMultiplier - 1} : lq_served(n)

\* the state after construction, with the default configuration
InitCore == InitQueue /\ InitBreaker /\ InitQuota /\ InitStorage("memory")
            /\ InitRetry(MaxMaxAttempts)
InitFinal == InitConfigured(DefaultBreakerConfig) /\ InitDlq("memory") /\ InitRetention /\ InitLifetime
InitLate == InitManager /\ InitStatus("memory") /\ InitContext /\ InitPipeline /\ InitCacheKey /\ InitOrchestrator /\ InitFinal
InitExt == InitProviders /\ InitJobStore("memory") /\ InitRedisQueue /\ InitPair /\ InitCodec
           /\ InitBatcher(TRUE) /\ InitLate
Init == InitCore /\ InitExt

\* JobStorage constructed on either backend
InitAnyStorage ==
    /\ InitQueue /\ InitBreaker /\ InitQuota /\ InitRetry(MaxMaxAttempts)
    /\ \E b \in Backends : InitStorage(b)
    /\ InitExt

\* RetryHandler constructed with any max_attempts
InitAnyRetry ==
    /\ InitQueue /\ InitBreaker /\ InitQuota /\ InitStorage("memory")
    /\ \E m \in 0..MaxMaxAttempts : InitRetry(m)
    /\ InitExt

SpecQueue == Init /\ [][NextQueue]_vars
SpecBreaker == Init /\ [][NextBreaker]_vars
SpecQuota == Init /\ [][NextQuota]_vars
SpecLimiter == Init /\ [][NextLimiter]_vars
SpecStorage == InitAnyStorage /\ [][NextStorage]_vars
SpecRetry == InitAnyRetry /\ [][NextRetry]_vars
\* a ProviderManager holding any list of providers
InitAnyManager ==
    /\ InitCore /\ InitAnyProviders /\ InitJobStore("memory")
    /\ InitRedisQueue /\ InitPair /\ InitCodec /\ InitBatcher(TRUE) /\ InitLate

\* the job, result and dead-letter stores on either backend
InitAnyJobStore ==
    /\ InitCore /\ InitProviders /\ (\E b \in Backends : InitJobStore(b))
    /\ InitRedisQueue /\ InitPair /\ InitCodec /\ InitBatcher(TRUE) /\ InitLate

\* any Job about to be serialised
InitAnyJob ==
    /\ InitCore /\ InitProviders /\ InitJobStore("memory")
    /\ InitRedisQueue /\ InitPair /\ InitAnyCodec /\ InitBatcher(TRUE) /\ InitLate

\* a Batcher with BATCH_ENABLED true or false
InitAnyBatcher ==
    /\ InitCore /\ InitProviders /\ InitJobStore("memory")
    /\ InitRedisQueue /\ InitPair /\ InitCodec /\ (\E on \in BOOLEAN : InitBatcher(on)) /\ InitLate

SpecProviders == InitAnyManager /\ [][NextProviders]_vars
SpecJobStore == InitAnyJobStore /\ [][NextJobStore]_vars
SpecRedisQueue == Init /\ [][NextRedisQueue]_vars
SpecQueuePair == Init /\ [][NextPair]_vars
SpecJobCodec == InitAnyJob /\ [][NextCodec]_vars
SpecManager == Init /\ [][NextManager]_vars
\* update_status on either backend
InitAnyStatus ==
    /\ InitCore /\ InitProviders /\ InitJobStore("memory")
    /\ InitRedisQueue /\ InitPair /\ InitCodec /\ InitBatcher(TRUE)
    /\ InitManager /\ (\E b \in Backends : InitStatus(b)) /\ InitContext /\ InitPipeline /\ InitCacheKey /\ InitOrchestrator /\ InitFinal

SpecStatus == InitAnyStatus /\ [][NextStatus]_vars
\* build_context called with any documents and any budget
InitAnyContext ==
    /\ InitCore /\ InitProviders /\ InitJobStore("memory")
    /\ InitRedisQueue /\ InitPair /\ InitCodec /\ InitBatcher(TRUE)
    /\ InitManager /\ InitStatus("memory") /\ InitAnyDocuments /\ InitPipeline /\ InitCacheKey /\ InitOrchestrator /\ InitFinal

SpecContext == InitAnyContext /\ [][NextContext]_vars
SpecPipeline == Init /\ [][NextPipeline]_vars
\* any RAGRequest
InitAnyCacheKey ==
    /\ InitCore /\ InitProviders /\ InitJobStore("memory")
    /\ InitRedisQueue /\ InitPair /\ InitCodec /\ InitBatcher(TRUE)
    /\ InitManager /\ InitStatus("memory") /\ InitContext /\ InitPipeline
    /\ InitAnyRequest /\ InitOrchestrator /\ InitFinal

SpecCacheKey == InitAnyCacheKey /\ [][NextCacheKey]_vars
\* any RAGRequest whose strings may contain "|"
InitAnySeparatorKey ==
    /\ InitCore /\ InitProviders /\ InitJobStore("memory")
    /\ InitRedisQueue /\ InitPair /\ InitCodec /\ InitBatcher(TRUE)
    /\ InitManager /\ InitStatus("memory") /\ InitContext /\ InitPipeline
    /\ InitSeparatorRequest /\ InitOrchestrator /\ InitFinal

SpecSeparatorKey == InitAnySeparatorKey /\ [][NextCacheKey]_vars
SpecOrchestrator == Init /\ [][NextOrchestrator]_vars
\* everything before the components below, as constructed
InitBase == InitCore /\ InitProviders /\ InitJobStore("memory") /\ InitRedisQueue /\ InitPair
            /\ InitCodec /\ InitBatcher(TRUE) /\ InitManager /\ InitStatus("memory")
            /\ InitContext /\ InitPipeline /\ InitCacheKey /\ InitOrchestrator

\* a CircuitBreaker constructed with any positive thresholds
InitAnyConfigured == InitBase /\ InitAnyConfig /\ InitDlq("memory") /\ InitRetention /\ InitLifetime

SpecConfigured == InitAnyConfigured /\ [][NextConfigured]_vars
\* the dead-letter store on either backend
InitAnyDeadLetter == InitBase /\ InitConfigured(DefaultBreakerConfig) /\ InitAnyDlq /\ InitRetention /\ InitLifetime

SpecDlq == InitAnyDeadLetter /\ [][NextDlq]_vars
SpecRetention == Init /\ [][NextRetention]_vars
SpecLifetime == Init /\ [][NextLifetime]_vars
SpecBatcher == InitAnyBatcher /\ [][NextBatcher]_vars
\* the event loop runs every timer that is due and its clock keeps moving
SpecBatcherFair ==
    /\ InitAnyBatcher /\ [][NextBatcher]_vars
    /\ WF_vars(\E task \in bt_tasks : batch_timer(task))
    /\ WF_vars(bt_tick)

(***************************************************************************)
(* C1: every dequeue returns, among the jobs then in the queue, one of     *)
(* the highest priority rank and, among those, the one enqueued earliest   *)
(* (smallest enqueue counter); an empty queue returns None.                *)
(***************************************************************************)
HeapEntries == {heap[i] : i \in 1..Len(heap)}

\* priority rank of the job of an entry: high > normal > low
RankOf(e) == to_int(e[3].priority)

C1_DequeueOrder ==
    [][ q_op' = "dequeue" =>
          IF heap = <<>> THEN q_ret' = <<>>
          ELSE /\ Len(q_ret') = 1
               /\ q_ret'[1] \in HeapEntries
               /\ \A e \in HeapEntries :
                     \/ RankOf(e) < RankOf(q_ret'[1])
                     \/ (RankOf(e) = RankOf(q_ret'[1]) /\ e[2] >= q_ret'[1][2])
               /\ {heap'[i] : i \in 1..Len(heap')} = HeapEntries \ {q_ret'[1]} ]_vars

\* a high-priority job enqueued later has been served before an earlier
\* low-priority one that is still waiting, and before a normal one
C1_Witness ==
    /\ q_op = "dequeue"
    /\ Len(q_ret) = 1
    /\ RankOf(q_ret[1]) = 3
    /\ \E e \in HeapEntries : RankOf(e) = 1 /\ e[2] < q_ret[1][2]
    /\ \E e \in HeapEntries : RankOf(e) = 2

(***************************************************************************)
(* C2: a closed breaker opens exactly when failure_threshold failures have *)
(* been recorded with no success in between; a success recorded while      *)
(* closed resets the failure count to zero; and an availability query made *)
(* right after the threshold-th consecutive failure returns false.         *)
(***************************************************************************)
C2_OpensAtThreshold ==
    [][ /\ (breaker.state = "closed" =>
              ( breaker'.state = "open"
                  <=> (b_op' = "record_failure" /\ h_consec' = failure_threshold) ))
        /\ (breaker.state = "closed" /\ b_op' = "record_success"
              => breaker'.failure_count = 0 /\ breaker'.state = "closed")
        /\ (breaker.state = "closed" /\ breaker'.state = "closed"
              => h_consec' < failure_threshold)
        /\ (b_op = "record_failure" /\ h_consec >= failure_threshold
              /\ h_openInstant # NoTime /\ now - h_openInstant < timeout_seconds
              /\ b_op' = "is_available"
              => b_avail' = FALSE) ]_vars

\* the breaker has just been opened by the threshold-th consecutive failure
C2_Witness ==
    /\ breaker.state = "open"
    /\ b_op = "record_failure"
    /\ h_consec = failure_threshold
    /\ breaker.failure_count = failure_threshold
    /\ breaker.last_failure_time > 0

(***************************************************************************)
(* C3: once the breaker has opened, every is_available query made less     *)
(* than timeout_seconds after the opening instant returns false, whatever  *)
(* is recorded meanwhile; the first query at or after timeout_seconds      *)
(* returns true, moves the breaker to half_open and zeroes the half-open   *)
(* call counter.                                                           *)
(***************************************************************************)
C3_OpenForTimeout ==
    [][ /\ (b_op' = "is_available" /\ h_openInstant # NoTime
               /\ now - h_openInstant < timeout_seconds
              => b_avail' = FALSE /\ breaker'.state = "open")
        /\ (b_op' \in {"record_success", "record_failure"} /\ breaker.state = "open"
              => breaker'.state = "open" /\ breaker'.opened_at = breaker.opened_at)
        /\ (b_op' = "is_available" /\ breaker.state = "open"
               /\ now - h_openInstant >= timeout_seconds
              => /\ b_avail' = TRUE
                 /\ breaker'.state = "half_open"
                 /\ breaker'.half_open_calls = 0) ]_vars

\* the first query after the timeout has just moved an open breaker, on which
\* calls were recorded while it was open, to half_open
C3_Witness ==
    /\ b_op = "is_available"
    /\ b_avail = TRUE
    /\ breaker.state = "half_open"
    /\ now = h_openInstant + timeout_seconds
    /\ breaker.failure_count > failure_threshold

(***************************************************************************)
(* C4: a half-open breaker closes only after success_threshold successes   *)
(* were recorded while it was half-open, and the failure count is zero     *)
(* when it closes.                                                         *)
(***************************************************************************)
C4_ClosesAfterHalfOpenSuccesses ==
    [][ breaker.state = "half_open" /\ breaker'.state = "closed"
          => /\ b_op' = "record_success"
             /\ h_hoSucc + 1 >= success_threshold
             /\ breaker'.failure_count = 0 ]_vars

(***************************************************************************)
(* C5: while the breaker is half-open, at most half_open_max_calls         *)
(* is_available grants are outstanding (granted and not yet reported).     *)
(***************************************************************************)
C5_HalfOpenProbeLimit ==
    breaker.state = "half_open" => h_hoProbes <= half_open_max_calls

(***************************************************************************)
(* C6: a failure recorded while half-open moves the breaker to open,       *)
(* zeroes the success count and restarts the open clock at the time of     *)
(* the failure, so is_available is false for the next timeout_seconds.     *)
(***************************************************************************)
C6_HalfOpenFailureReopens ==
    [][ /\ (breaker.state = "half_open" /\ b_op' = "record_failure"
              => /\ breaker'.state = "open"
                 /\ breaker'.success_count = 0
                 /\ breaker'.opened_at = now)
        /\ (b_op' = "is_available" /\ breaker.state = "open"
               /\ now - breaker.opened_at < timeout_seconds
              => b_avail' = FALSE /\ breaker'.state = "open") ]_vars

\* a half-open breaker with a success on record has been re-opened by a
\* failure, and a later query inside the new timeout was refused
C6_Witness ==
    /\ breaker.state = "open"
    /\ b_op = "is_available"
    /\ b_avail = FALSE
    /\ breaker.failure_count = failure_threshold + 1
    /\ breaker.opened_at = breaker.last_failure_time
    /\ breaker.opened_at >= timeout_seconds
    /\ now > breaker.opened_at

(***************************************************************************)
(* C7: for every tenant, the admitted requests whose timestamps fall       *)
(* inside any 60-second window [t, t+60) never exceed the per-minute       *)
(* limit; a request that would be one more than the limit inside the       *)
(* window ending at its own time is rejected as rate-limit exceeded,       *)
(* records no timestamp and consumes no daily quota.                       *)
(***************************************************************************)
WindowCount(adm, t) ==
    Cardinality({i \in 1..Len(adm) : t <= adm[i] /\ adm[i] < t + WindowSeconds})

WindowBound(adm, limit) ==
    \A i \in 1..Len(adm) : WindowCount(adm, adm[i]) <= limit

\* a request made at time t would be beyond the limit
Beyond(adm, t, limit) ==
    Cardinality({i \in 1..Len(adm) : adm[i] > t - WindowSeconds}) >= limit

IsCheckResult(r) == r \in {"allowed", "daily_quota_exceeded", "rate_limit_exceeded"}

TenantQuotaWindowBound == WindowBound(tq_admitted, rate_limit_per_minute)

TenantQuotaBeyondRejected(reasons) ==
    IsCheckResult(tq_ret') /\ Beyond(tq_admitted, clock, rate_limit_per_minute)
      => /\ tq_ret' \in reasons
         /\ tq_admitted' = tq_admitted
         /\ Len(tq'.request_timestamps) <= Len(tq.request_timestamps)
         /\ tq'.daily_usage <= tq.daily_usage

StoreWindowBound ==
    \A t \in Tenants : WindowBound(rl_admitted[t], RATE_LIMIT_PER_MINUTE)

StoreBeyondRejected ==
    \A t \in Tenants :
       rl_ret'.op = "check_rate_limit" /\ rl_ret'.tenant = t
          /\ Beyond(rl_admitted[t], clock, RATE_LIMIT_PER_MINUTE)
         => /\ rl_ret'.allowed = FALSE
            /\ rl_admitted' = rl_admitted
            /\ Len(rate_limits'[t]) <= Len(rate_limits[t])
            /\ daily_quotas' = daily_quotas

C7_RateLimitWindow ==
    [][ /\ TenantQuotaWindowBound'
        /\ TenantQuotaBeyondRejected({"rate_limit_exceeded"})
        /\ StoreWindowBound'
        /\ StoreBeyondRejected ]_vars

\* what check_and_consume does guarantee: the window bound, and a rejection
\* of the request beyond the limit for one of the two reasons
TenantQuotaRejectsBeyond ==
    [][ /\ TenantQuotaWindowBound'
        /\ TenantQuotaBeyondRejected({"rate_limit_exceeded", "daily_quota_exceeded"}) ]_vars

StoreRejectsBeyond ==
    [][ StoreWindowBound' /\ StoreBeyondRejected ]_vars

(***************************************************************************)
(* C8: under any interleaving of concurrent admissions that carry the same *)
(* idempotency key, exactly one job identifier is ever bound to that key   *)
(* and every one of those admissions ends up with that identifier.         *)
(***************************************************************************)
C8_OneJobPerKey ==
    /\ \A k \in Keys : Cardinality(h_bound[k]) <= 1
    /\ \A p, q \in Admissions :
          admission[p].pc = "done" /\ admission[q].pc = "done"
             /\ admission[p].key = admission[q].key
            => admission[p].job_id = admission[q].job_id

(***************************************************************************)
(* C9: execute_with_retry invokes the operation at most max_attempts       *)
(* times and stops at the first success; an invocation that fails with an  *)
(* error classified terminal is followed by no sleep and no invocation,    *)
(* and that error is the one raised; a sleep happens only between two      *)
(* consecutive attempts, never after the last one.                         *)
(***************************************************************************)
IsCall(ev) == ev[1] \in {"ok", "error"}

Invocations == Cardinality({i \in 1..Len(r_log) : IsCall(r_log[i])})

RetryDone == r_pc \in {"returned", "raised"}

C9_RetryDiscipline ==
    /\ Invocations <= max_attempts
    /\ \A i \in 1..Len(r_log) :
          /\ r_log[i][1] = "ok" => i = Len(r_log) /\ r_pc = "returned"
          /\ (r_log[i][1] = "error" /\ ~is_retryable_error(r_log[i][2]))
                => i = Len(r_log) /\ r_pc = "raised" /\ r_raised = <<r_log[i][2]>>
          /\ r_log[i][1] = "sleep"
                => /\ i > 1 /\ r_log[i-1][1] = "error"
                   /\ i < Len(r_log) => IsCall(r_log[i+1])
                   /\ i = Len(r_log) => r_pc = "call" /\ Invocations < max_attempts
    /\ r_pc = "returned" => r_log # <<>> /\ r_log[Len(r_log)][1] = "ok"
    /\ RetryDone /\ r_log # <<>> => IsCall(r_log[Len(r_log)])

\* a 401 on the second attempt, after one retryable failure and one sleep,
\* has been raised at once
C9_Witness ==
    /\ r_pc = "raised"
    /\ Len(r_log) = 3
    /\ r_log[2][1] = "sleep"
    /\ r_log[3][1] = "error"
    /\ r_log[3][2].cls = "Exception"
    /\ r_log[3][2].msg = <<"4","0","1"," ","U","n","a","u","t","h","o","r","i","z","e","d">>
    /\ Invocations < max_attempts

(***************************************************************************)
(* C10: the classifier decides on the error's tag alone: a                 *)
(* NonRetryableError is terminal whatever its message, a RetryableError    *)
(* is retryable, and message matching decides only for other errors.       *)
(***************************************************************************)
C10_TagDecides ==
    r_last # <<>> =>
       /\ IsNonRetryableInstance(r_last[1].cls) => r_last[2] = FALSE
       /\ IsRetryableInstance(r_last[1].cls) => r_last[2] = TRUE

(***************************************************************************)
(* C11: ProviderManager.inference calls providers strictly in configured   *)
(* order: the k-th call of a request is to provider k and every earlier    *)
(* call raised; the response returned is that of the first provider that   *)
(* did not raise and no later provider is called; an error is raised only  *)
(* when every configured provider has been called and raised.              *)
(***************************************************************************)
C11_ProviderOrder ==
    /\ \A k \in 1..Len(pm_log) :
          /\ pm_log[k].index = k
          /\ k < Len(pm_log) => pm_log[k].raised
    /\ pm_pc = "loop" => \A k \in 1..Len(pm_log) : pm_log[k].raised
    /\ pm_pc = "returned" =>
          /\ Len(pm_log) >= 1
          /\ ~pm_log[Len(pm_log)].raised
          /\ pm_result[1].provider_name = ProviderName(pm_providers[Len(pm_log)])
          /\ pm_result[1].attempt_number = Len(pm_log)
    /\ pm_pc = "raised" =>
          /\ Len(pm_log) = Len(pm_providers)
          /\ \A k \in 1..Len(pm_log) : pm_log[k].raised

\* a request answered by the third provider after two failures
C11_Witness ==
    /\ pm_pc = "returned"
    /\ Len(pm_log) = 3
    /\ pm_result[1].fallback_occurred

(***************************************************************************)
(* C12: when the first provider's endpoint answers 503 on every attempt    *)
(* and the second provider's endpoint answers 200, the request succeeds    *)
(* with the second provider reported as the provider used, after the       *)
(* first provider has been attempted max_attempts times.                   *)
(***************************************************************************)
\* HTTP requests sent to provider k's endpoint during the request
HttpAttempts(k) ==
    LET Sum[n \in 0..Len(pm_log)] ==
          IF n = 0 THEN 0
          ELSE Sum[n - 1] + (IF pm_log[n].index = k THEN pm_log[n].http_calls ELSE 0)
    IN Sum[Len(pm_log)]

C12_FallbackAfterRetries ==
    ( /\ pm_pc \in {"returned", "raised"}
      /\ Len(pm_providers) >= 2
      /\ pm_providers[1] # "grok"
      /\ pm_endpoint[1] = 503
      /\ pm_endpoint[2] = 200 )
    => /\ pm_pc = "returned"
       /\ pm_result[1].provider_name = ProviderName(pm_providers[2])
       /\ HttpAttempts(1) = max_attempts

(***************************************************************************)
(* C13: every status change made through update_status, add_to_dlq or      *)
(* requeue_from_dlq moves a job forward along pending -> queued ->         *)
(* running -> {completed, failed, timeout, cancelled, dead_letter}; a job  *)
(* in one of the five terminal statuses never changes status again.        *)
(***************************************************************************)
StatusRank(s) ==
    CASE s = "pending" -> 0
      [] s = "queued" -> 1
      [] s = "running" -> 2
      [] OTHER -> 3

C13_StatusLattice ==
    (js_last.op \in {"update_status", "add_to_dlq", "requeue_from_dlq"}
       /\ js_last.from # "none" /\ js_last.from # js_last.to)
    => StatusRank(js_last.from) < StatusRank(js_last.to)

(***************************************************************************)
(* C14: once a job is marked completed, no later save_job, save_result or  *)
(* update_status changes the result get_job / get_result return for it.    *)
(***************************************************************************)
C14_CompletedResultImmutable ==
    [][\A id \in StoredJobIds :
         (js_jobs[id] # <<>> /\ js_jobs[id][1].status = "completed"
            /\ js_last'.op \in {"save_job", "save_result", "update_status"})
         => /\ js_jobs'[id] # <<>>
            /\ js_jobs'[id][1].result = js_jobs[id][1].result
            /\ js_results'[id] = js_results[id]]_vars

MemoryQueueBounded == Len(heap) <= max_size

C16_MaxSizeBound ==
    /\ Len(heap) <= max_size
    /\ Cardinality(rq_zset) <= max_size

(***************************************************************************)
(* C17: RedisQueue and InMemoryQueue are observationally equivalent: for   *)
(* every sequence of enqueue, dequeue, peek, size and remove calls applied *)
(* to both, each call returns the same outcome in both (same job           *)
(* identifier or empty, same boolean, same size).                          *)
(***************************************************************************)
C17_BackendsEquivalent == pair_last.mem = pair_last.redis

(***************************************************************************)
(* C18: Job.from_dict(job.to_dict()) equals job field for field, for       *)
(* every Job (provider_timeout_seconds and the four timestamps included).  *)
(***************************************************************************)
C18_JobRoundTrip == codec_back # <<>> => codec_back[1] = codec_job

(***************************************************************************)
(* C19: every job accepted by add_job is delivered to a flush no later     *)
(* than the earlier of its batch reaching max_batch_size (flushed inside   *)
(* that add_job, so no open batch holds max_batch_size jobs) and           *)
(* batch_window elapsing since the batch was created; so every accepted    *)
(* job is eventually passed to the flush callback.                         *)
(***************************************************************************)
OpenBatches == {bt_batches[key][1] : key \in {k \in BatchKeys : bt_batches[k] # <<>>}}

DeliveredJobIds ==
    {bt_delivered[i].jobs[n].job_id :
        i \in 1..Len(bt_delivered), n \in 1..max_batch_size}

IsDelivered(job_id) ==
    \E i \in 1..Len(bt_delivered) :
       \E n \in 1..Len(bt_delivered[i].jobs) : bt_delivered[i].jobs[n].job_id = job_id

OpenBatchWithinLimits ==
    \A batch \in OpenBatches :
       /\ Len(batch.jobs) < max_batch_size
       /\ bt_now <= batch.created_at + batch_window

C19_FlushBySizeOrWindow ==
    /\ []OpenBatchWithinLimits
    /\ \A job_id \in BatchJobIds :
          (job_id \in bt_accepted) ~> IsDelivered(job_id)

\* one batch was flushed on reaching max_batch_size and a later one by its timer
C19_Witness ==
    /\ Len(bt_delivered) >= 2
    /\ Len(bt_delivered[1].jobs) = max_batch_size
    /\ Len(bt_delivered[2].jobs) < max_batch_size
    /\ bt_now >= bt_delivered[2].created_at + batch_window
    /\ OpenBatches = {}

(***************************************************************************)
(* C20: under any interleaving of add_job, timer expiries and              *)
(* force_flush_all, every accepted job is handed to the flush callback in  *)
(* exactly one batch (never lost, never twice); a flushed batch is never   *)
(* appended to: a later job with the same key goes into a new batch.       *)
(***************************************************************************)
Occurrences(jobs, job_id) == Cardinality({n \in 1..Len(jobs) : jobs[n].job_id = job_id})

RECURSIVE DeliveredCount(_, _)
DeliveredCount(i, job_id) ==
    IF i = 0 THEN 0
    ELSE DeliveredCount(i - 1, job_id) + Occurrences(bt_delivered[i].jobs, job_id)

RECURSIVE SumOver(_, _)
SumOver(batches, job_id) ==
    IF batches = {} THEN 0
    ELSE LET batch == CHOOSE one \in batches : TRUE
         IN Occurrences(batch.jobs, job_id) + SumOver(batches \ {batch}, job_id)

C20_ExactlyOnce ==
    /\ \A job_id \in bt_accepted :
          DeliveredCount(Len(bt_delivered), job_id) + SumOver(OpenBatches, job_id) = 1
    /\ \A batch \in OpenBatches :
          \A i \in 1..Len(bt_delivered) : bt_delivered[i].id # batch.id
    /\ \A i, k \in 1..Len(bt_delivered) : i # k => bt_delivered[i].id # bt_delivered[k].id

\* a key whose first batch was flushed holds a second, newly created batch
C20_Witness ==
    \E i \in 1..Len(bt_delivered) :
       \E batch \in OpenBatches :
          /\ batch.key = bt_delivered[i].key
          /\ batch.id > bt_delivered[i].id
          /\ Len(bt_delivered[i].jobs) >= 1

(***************************************************************************)
(* C21: admission evaluates the per-minute rate limit before the daily     *)
(* quota: a check made by a tenant that is over both limits is rejected as *)
(* rate-limit exceeded, never as daily-quota exceeded.                     *)
(***************************************************************************)
\* the tenant has used up the day's quota as check_and_consume sees it at t
OverDailyQuota(q, t) ==
    t - q.last_reset < DaySeconds /\ q.daily_usage >= daily_quota

\* the tenant has filled the sliding window as check_and_consume sees it at t
OverRateLimit(q, t) ==
    Len(CleanOld(q.request_timestamps, t - WindowSeconds)) >= rate_limit_per_minute

C21_RateLimitBeforeQuota ==
    [][ IsCheckResult(tq_ret') /\ OverDailyQuota(tq, clock) /\ OverRateLimit(tq, clock)
          => tq_ret' = "rate_limit_exceeded" ]_vars

(***************************************************************************)
(* C22: the daily usage counter is reset exactly at calendar-day           *)
(* boundaries: the first admission check made after the UTC day has moved  *)
(* past the day of the last reset zeroes the counter and sets the          *)
(* last-reset timestamp, no check made on the day of the last reset zeroes *)
(* it, and the admissions of one calendar day never exceed the daily       *)
(* ceiling.                                                                *)
(***************************************************************************)
DayCount(adm, day) == Cardinality({i \in 1..Len(adm) : Today(adm[i]) = day})

TenantQuotaResetsAtMidnight ==
    IsCheckResult(tq_ret') /\ Today(clock) > Today(tq.last_reset)
      => /\ tq'.last_reset = clock
         /\ tq'.daily_usage = IF tq_ret' = "allowed" THEN 1 ELSE 0

TenantQuotaKeepsWithinDay ==
    IsCheckResult(tq_ret') /\ Today(clock) = Today(tq.last_reset)
      => /\ tq'.last_reset = tq.last_reset
         /\ tq'.daily_usage >= tq.daily_usage

TenantQuotaDayBound ==
    \A i \in 1..Len(tq_admitted) :
       DayCount(tq_admitted, Today(tq_admitted[i])) <= daily_quota

C22_DailyResetAtDayBoundary ==
    [][ /\ TenantQuotaResetsAtMidnight
        /\ TenantQuotaKeepsWithinDay
        /\ TenantQuotaDayBound' ]_vars

(***************************************************************************)
(* C23: the tier passed to QuotaManager.check_and_consume selects the      *)
(* ceilings applied to that very admission: a tenant already known under   *)
(* one tier and next admitted with another tier is checked against the     *)
(* daily ceiling and the per-minute limit of the tier of the call.         *)
(***************************************************************************)
C23_TierOfCallApplies ==
    [][ qm_last'.op = "check_and_consume"
          => LET tenant_id == qm_last'.tenant
                 config == TierConfig(qm_last'.tier)
                 tenant == GetOrCreateTenant(qm_tenants, tenant_id,
                                             qm_last'.tier, qm_now)[tenant_id]
             IN qm_last'.reason =
                   TenantCheck(tenant, qm_now, config.daily, config.rate)[1] ]_vars

(***************************************************************************)
(* C24: concurrent update_status calls on one job are linearized on both   *)
(* backends: once all of them have returned, the status and the error of   *)
(* the stored job are those left by applying the calls one after another   *)
(* in some order.                                                          *)
(***************************************************************************)
StoredJob == IF su_backend = "redis" THEN from_dict(su_store, su_now) ELSE su_store

WriterOrders ==
    {o \in [1..StatusWriters -> Writers] : \A i, j \in 1..StatusWriters : o[i] = o[j] => i = j}

RECURSIVE AppliedInOrder(_, _, _)
AppliedInOrder(job, o, n) ==
    IF n = 0 THEN job
    ELSE UpdatedJob(AppliedInOrder(job, o, n - 1),
                    su_calls[o[n]].status, su_calls[o[n]].error, su_now)

C24_UpdatesLinearized ==
    (\A w \in Writers : su_calls[w].pc = "done")
      => \E o \in WriterOrders :
            LET job == AppliedInOrder(StatusJob, o, StatusWriters)
            IN StoredJob.status = job.status /\ StoredJob.error = job.error

(***************************************************************************)
(* C25: build_context includes exactly the longest prefix, in rank order,  *)
(* of the documents whose cumulative estimated tokens do not exceed        *)
(* max_tokens, and neither the reported token_count nor the estimated      *)
(* tokens of the emitted formatted_context, separators included, exceed    *)
(* max_tokens.                                                             *)
(***************************************************************************)
RECURSIVE PrefixTokens(_, _, _)
PrefixTokens(docs, n, include_metadata) ==
    IF n = 0 THEN 0
    ELSE PrefixTokens(docs, n - 1, include_metadata)
         + estimate_tokens(FormatLen(docs[n], include_metadata))

PrefixFits(n) ==
    PrefixTokens(cb_documents, n, cb_include_metadata)
       <= EffectiveMaxTokens(cb_max_tokens)

LongestPrefixIncluded ==
    /\ cb_window.documents = [i \in 1..Len(cb_window.documents) |-> i]
    /\ PrefixFits(Len(cb_window.documents))
    /\ Len(cb_window.documents) < Len(cb_documents)
          => ~PrefixFits(Len(cb_window.documents) + 1)

C25_ContextWithinBudget ==
    cb_window.built
      => /\ LongestPrefixIncluded
         /\ cb_window.token_count <= EffectiveMaxTokens(cb_max_tokens)
         /\ estimate_tokens(FormattedContextLen(cb_window))
               <= EffectiveMaxTokens(cb_max_tokens)

\* what build_context does guarantee: the prefix and the reported count
ContextPrefixAndCount ==
    cb_window.built
      => /\ LongestPrefixIncluded
         /\ cb_window.token_count <= EffectiveMaxTokens(cb_max_tokens)

(***************************************************************************)
(* C26: for any non-empty document list the context window returned by     *)
(* build_context contains at least one document; when the first document   *)
(* alone exceeds the budget it is the one included, cut down to the budget *)
(* with the truncation marker appended, and the truncated flag is set.     *)
(***************************************************************************)
FirstExceedsBudget ==
    /\ cb_documents # <<>>
    /\ estimate_tokens(FormatLen(cb_documents[1], cb_include_metadata))
          > EffectiveMaxTokens(cb_max_tokens)

C26_FirstDocumentAlwaysIncluded ==
    cb_window.built /\ cb_documents # <<>>
      => /\ Len(cb_window.documents) >= 1
         /\ cb_window.documents[1] = 1
         /\ FirstExceedsBudget
              => /\ cb_window.truncated
                 /\ cb_window.marked
                 /\ cb_window.documents = <<1>>
                 /\ Len(cb_window.parts) = 1
                 /\ cb_window.parts[1]
                       <= EffectiveMaxTokens(cb_max_tokens) * chars_per_token

(***************************************************************************)
(* C27: every RAG request that completes returns exactly two follow-up     *)
(* questions, each a non-empty string ending in "?", whatever the          *)
(* follow-up inference call returns.                                       *)
(***************************************************************************)
C27_TwoFollowUps ==
    rp_response.completed
      => /\ Len(rp_response.follow_up_questions) = 2
         /\ \A i \in 1..Len(rp_response.follow_up_questions) :
               rp_response.follow_up_questions[i] = "good"

(***************************************************************************)
(* C28: every RAG request that completes carries at least one citation and *)
(* every citation refers to a document placed in the context window:       *)
(* document i of the context is cited when the answer contains [i], and    *)
(* when the answer contains no marker the first up to three context        *)
(* documents are cited.                                                    *)
(***************************************************************************)
Range(f) == {f[i] : i \in DOMAIN f}

CitationsFromContext ==
    /\ Range(rp_response.citations) \subseteq Range(rp_window.documents)
    /\ \A i \in 1..Len(rp_window.documents) :
          i \in rp_answer.brackets => rp_window.documents[i] \in Range(rp_response.citations)
    /\ (\A i \in 1..Len(rp_window.documents) : ~IsDocumentCited(rp_answer, i))
          => rp_response.citations =
                SubSeq(rp_window.documents, 1,
                       IF Len(rp_window.documents) < 3 THEN Len(rp_window.documents) ELSE 3)

C28_CitationsPresent ==
    rp_response.completed
      => /\ Len(rp_response.citations) >= 1
         /\ CitationsFromContext

\* what _extract_citations does guarantee
CitationsResolveToContext == rp_response.completed => CitationsFromContext

(***************************************************************************)
(* C29: the RAG cache key is a function of exactly (tenant, query          *)
(* lower-cased and trimmed, template or "default", k, citation style,      *)
(* response style): two requests that agree on these six values get the    *)
(* same key on every call, whatever their other fields.                    *)
(***************************************************************************)
SixValues(request) ==
    <<request.tenant_id, Strip(Lower(request.query)),
      IF request.template_id \in {NoneValue, <<>>} THEN <<"default">>
      ELSE request.template_id,
      request.top_k, request.citation_style, request.response_style>>

C29_CacheKeyOfSixValues ==
    /\ \A i \in 1..Len(ck_keys) : ck_keys[i] = ck_keys[1]
    /\ ck_keys # <<>>
         => \A other \in RagRequests :
               SixValues(other) = SixValues(ck_request)
                  => generate_cache_key(other) = ck_keys[1]

\* two calls were made on a request that shares its six values with a request
\* differing in the text of the query, the template field and the dry-run flag
C29_Witness ==
    /\ Len(ck_keys) = 2
    /\ ck_request.query = <<"A", " ">>
    /\ ck_request.template_id = NoneValue
    /\ \E other \in RagRequests :
          /\ other.query = <<" ", "a">>
          /\ other.template_id = <<>>
          /\ other.dry_run # ck_request.dry_run
          /\ SixValues(other) = SixValues(ck_request)
          /\ generate_cache_key(other) = ck_keys[2]

(***************************************************************************)
(* C30: a RAG request with the dry-run flag set returns the assembled      *)
(* prompt and the list of selected snippets, makes no provider inference   *)
(* call, neither for the answer nor for follow-ups, and writes nothing to  *)
(* the result cache.                                                       *)
(***************************************************************************)
DryRunReturned == ro_served > 0 /\ ro_request.dry_run /\ ro_pc = "idle"

DryRunMakesNoCallNoWrite ==
    ro_served > 0 /\ ro_request.dry_run => ro_calls = 0 /\ ro_writes = 0

PendingTimer(key) ==
    /\ bt_timers[key] # NoTimer
    /\ \E task \in bt_tasks :
          task.id = bt_timers[key] /\ task.key = key /\ ~task.cancelled

JobKeyOf(job) ==
    IF job.target_provider = <<>> THEN <<"default", job.job_type>>
    ELSE <<job.target_provider[1], job.job_type>>

C31_OneBatchPerKey ==
    /\ \A key \in DOMAIN bt_batches :
          /\ Len(bt_batches[key]) <= 1
          /\ bt_batches[key] # <<>> => bt_batches[key][1].key = key
    /\ \A one, other \in OpenBatches : one.key = other.key => one = other
    /\ \A key \in DOMAIN bt_batches :
          (bt_timers[key] # NoTimer \/ PendingTimer(key)) <=> bt_batches[key] # <<>>
    /\ \A key \in DOMAIN bt_batches : bt_batches[key] # <<>> => PendingTimer(key)
    /\ \A batch \in OpenBatches :
          \A n \in 1..Len(batch.jobs) : JobKeyOf(batch.jobs[n]) = batch.key

\* two keys hold an open batch each, after an earlier batch was flushed
C31_Witness ==
    /\ Cardinality(OpenBatches) = 2
    /\ Len(bt_delivered) >= 1
    /\ \A key \in DOMAIN bt_batches : PendingTimer(key)

(***************************************************************************)
(* C32: force_flush_all leaves both the batch mapping and the timer        *)
(* mapping empty and passes every previously open non-empty batch to the   *)
(* callback exactly once; flushing a key that has no open batch, or a      *)
(* batch that holds no jobs, invokes no callback; and with batching        *)
(* disabled add_job returns False without creating any batch or timer.     *)
(***************************************************************************)
TimesDelivered(delivered, batch) ==
    Cardinality({i \in 1..Len(delivered) : delivered[i] = batch})

ForceFlushDrains ==
    force_flush_all =>
       /\ \A key \in DOMAIN bt_batches :
             bt_batches'[key] = <<>> /\ bt_timers'[key] = NoTimer
       /\ Len(bt_delivered') = Len(bt_delivered) + Cardinality(OpenBatches)
       /\ SubSeq(bt_delivered', 1, Len(bt_delivered)) = bt_delivered
       /\ \A batch \in OpenBatches :
             /\ batch.jobs # <<>>
             /\ TimesDelivered(bt_delivered', batch)
                   = TimesDelivered(bt_delivered, batch) + 1

\* _flush_batch applied to the present state with the key absent, and with
\* the key holding a batch that has no jobs
EmptyFlushIsNoOp ==
    \A key \in DOMAIN bt_batches :
       /\ bt_batches[key] = <<>> => FlushBatch(BatcherState, key) = BatcherState
       /\ LET hollow == [id |-> bt_next_id, key |-> key, jobs |-> <<>>,
                         created_at |-> bt_now]
              st == [BatcherState EXCEPT !.batches[key] = <<hollow>>]
          IN /\ FlushBatch(st, key).delivered = bt_delivered
             /\ FlushBatch(st, key).batches[key] = <<>>

DisabledAddsNothing ==
    ~bt_enabled =>
       /\ \A key \in DOMAIN bt_batches :
             bt_batches[key] = <<>> /\ bt_timers[key] = NoTimer
       /\ bt_tasks = {}
       /\ bt_accepted = {}
       /\ bt_delivered = <<>>

C32_ForceFlushAndNoOps ==
    /\ [][ForceFlushDrains]_vars
    /\ [](EmptyFlushIsNoOp /\ DisabledAddsNothing)

\* force_flush_all has handed over two batches, of different keys, that
\* neither the size limit nor the window would have flushed
C32_Witness ==
    /\ bt_enabled
    /\ bt_now < batch_window
    /\ Len(bt_delivered) = 2
    /\ bt_delivered[1].key # bt_delivered[2].key
    /\ \A i \in 1..2 : Len(bt_delivered[i].jobs) < max_batch_size
    /\ OpenBatches = {}
    /\ \A key \in DOMAIN bt_timers : bt_timers[key] = NoTimer

\* add_job was called on a disabled batcher
C32_DisabledWitness == ~bt_enabled /\ bt_submitted # {} /\ bt_accepted = {}

(***************************************************************************)
(* C33: QuotaManager.update_tenant_tier called with a known tier always    *)
(* terminates and returns True, after which the tenant's quota record uses *)
(* the new tier's daily ceiling and per-minute limit; it never blocks      *)
(* forever on the manager's own lock.                                      *)
(***************************************************************************)
C33_UpdateTierTerminates ==
    [][ (qm_last'.op = "update_tenant_tier" /\ qm_last'.tier \in KnownTiers)
          => /\ ~qm_locked'
             /\ qm_last'.reason # "blocked"
             /\ qm_last'.tenant \in DOMAIN qm_tenants'
             /\ qm_tenants'[qm_last'.tenant].daily_quota
                   = TierConfig(qm_last'.tier).daily
             /\ qm_tenants'[qm_last'.tenant].rate_limit_per_minute
                   = TierConfig(qm_last'.tier).rate ]_vars

(***************************************************************************)
(* C34: for every configuration with positive thresholds a half-open       *)
(* breaker cannot get stuck: provided every probe admitted by is_available *)
(* eventually reports success or failure, the breaker eventually becomes   *)
(* closed or open; it never reaches a half-open state in which             *)
(* is_available refuses every caller while no admitted probe is            *)
(* outstanding.                                                            *)
(***************************************************************************)
HalfOpenStuck ==
    /\ hb_breaker.state = "half_open"
    /\ hb_outstanding = 0
    /\ ~IsAvailableWith(hb_breaker, hb_now, hb_config)[1]

C34_HalfOpenNeverStuck == ~HalfOpenStuck

(***************************************************************************)
(* C35: two RAG requests with different tenant identifiers never get the   *)
(* same cache key, for any tenant, query and template strings, including   *)
(* strings that contain the "|" separator that joins the key parts.        *)
(***************************************************************************)
C35_TenantsNeverShareKey ==
    \A other \in SeparatorRequests :
       other.tenant_id # ck_request.tenant_id
          => \A i \in 1..Len(ck_keys) : ck_keys[i] # generate_cache_key(other)

(***************************************************************************)
(* C36: two concurrent requeue_from_dlq calls for the same job identifier  *)
(* never both return the job: a dead-lettered job is handed back for       *)
(* re-insertion at most once per add_to_dlq, on the memory and on the      *)
(* redis backend alike.                                                    *)
(***************************************************************************)
HandedBack == {p \in Requeuers : dq_calls[p].pc = "done" /\ dq_calls[p].ret # <<>>}

C36_RequeuedAtMostOnce == Cardinality(HandedBack) <= dq_added

(***************************************************************************)
(* C38: when the backend write inside add_to_dlq fails, add_to_dlq returns *)
(* False without raising and leaves the job's status and error as they     *)
(* were before the call, so a job has status dead_letter only if it is     *)
(* present in the dead-letter store.                                       *)
(***************************************************************************)
AddToDlqFailed == dq_last.op = "add_to_dlq" /\ ~dq_last.ret

C38_FailedDlqWriteLeavesJob ==
    /\ AddToDlqFailed
          => /\ dq_job.status = dq_last.before.status
             /\ dq_job.error = dq_last.before.error
    /\ (dq_last.op = "add_to_dlq" /\ dq_job.status = Enum("JobStatus", "dead_letter"))
          => dq_dlq # <<>>

(***************************************************************************)
(* C37: after any sequence of save_job and cleanup_old_jobs on the memory  *)
(* store, every idempotency key that check_idempotency resolves maps to a  *)
(* job that get_job still returns: cleanup removes the idempotency records *)
(* of the jobs it removes, so a key never outlives its job.                *)
(***************************************************************************)
C37_KeyNeverOutlivesJob ==
    \A key \in DOMAIN cl_idempotency :
       CheckIdempotencyMemory(cl_idempotency, key) # NoIdem
          => GetJobMemory(cl_jobs, CheckIdempotencyMemory(cl_idempotency, key)[1]) # <<>>

(***************************************************************************)
(* C39: in the redis queue the score of a higher-priority job is strictly  *)
(* lower than the score of every lower-priority job for every value the    *)
(* persistent sequence counter can reach, so priority order never inverts  *)
(* however many jobs have been enqueued over the queue's lifetime.         *)
(***************************************************************************)
C39_ScoreOrderedByPriority ==
    \A e, f \in lq_zset :
       to_int(e.member.priority) > to_int(f.member.priority)
          => ~ScoreLe(f.score, e.score)

(***************************************************************************)
(* C40: a failure of the follow-up inference call never fails the RAG      *)
(* request: process still returns the answer and the citations, with the   *)
(* two default follow-up questions; whereas a failure of retrieval or of   *)
(* the answer inference call makes process raise without the follow-up     *)
(* inference call ever being made.                                         *)
(***************************************************************************)
FollowUpCallFailed == rp_response.reply.kind = "failure"

C40_FollowUpFailureTolerated ==
    /\ (rp_pc = "follow_up" \/ FollowUpCallFailed) => rp_calls = 2
    /\ FollowUpCallFailed
          => /\ rp_pc = "done"
             /\ rp_response.completed
             /\ rp_response.answer = <<rp_answer>>
             /\ rp_response.citations = ExtractCitations(rp_answer, rp_window.documents)
             /\ Len(rp_response.follow_up_questions) = 2
             /\ \A i \in 1..2 : rp_response.follow_up_questions[i] = "good"
    /\ rp_pc = "raised"
          => /\ ~rp_response.completed
             /\ rp_calls <= 1

\* the follow-up call failed after an answer that cites a document of the
\* context: the response carries the answer, that citation and the defaults
C40_Witness ==
    /\ rp_pc = "done"
    /\ FollowUpCallFailed
    /\ rp_response.completed
    /\ rp_answer.brackets # {}
    /\ Len(rp_response.citations) >= 1

\* process raised at the answer call, the only inference call it made
C40_RaisedWitness == rp_pc = "raised" /\ rp_calls = 1

====
